---- MODULE Spec2Model ----
(***************************************************************************)
(* A model of the ScanNeo-Router worker: the job processor and its poll    *)
(* loop (job_processor.py, database.py, main.py), the time-based chunker   *)
(* (route_calculator.py), the gap bridging and repair of                   *)
(* route_connector.py, the directed Chinese Postman pipeline of            *)
(* route_calculator.py, the ORS client (ors_client.py), the graph builder  *)
(* (graph_builder.py), connect_components (route_connector.py) and         *)
(* get_pending_job polled by several worker processes (database.py).       *)
(*                                                                         *)
(* Coordinates are modelled as positions along one axis, in metres (in     *)
(* decimetres where the graph builder is run on its own), so the geodesic  *)
(* distance of two points is the absolute difference of their positions.   *)
(***************************************************************************)
EXTENDS Integers, Sequences, FiniteSets, TLC

VARIABLES
    \* ---- job processing (job_processor.py, database.py, main.py)
    jobStatus,      \* coverage_routes.params.status of every job row
    progressLog,    \* per job id, the (status, progress) update_job_status was called with
    saved,          \* per job id, whether save_route_result has committed its rows
    jobRes,         \* per job id, what process_job has got through so far
    pc,             \* per task, its position in start() / process_job()
    tjob,           \* per task, the id of the job it is processing
    running,        \* JobProcessor.running
    cur,            \* the task that holds the event loop (NoTask: loop is free)
    \* ---- split_into_chunks (route_calculator.py)
    route_coords,       \* the route to split
    chunk_duration_s,   \* target duration of a chunk, seconds
    profile,            \* routing profile, selects the speed
    chunks,             \* the chunks emitted so far
    current_chunk,      \* coordinates of the chunk being filled
    current_length,     \* its length, metres
    current_time,       \* its time, see SegmentTime
    ci,                 \* the loop index i
    cpc,                \* position in split_into_chunks
    \* ---- bridge_route_gaps and _repair_continuity (route_connector.py)
    oracleKind,     \* how the routing oracle (ors_client) answers
    bG,             \* the graph the circuit is taken from
    circuit,        \* the circuit: a sequence of (u, v) pairs
    out,            \* the polyline built so far
    bidx,           \* index of the circuit edge the main walk is at
    ri,             \* the index i of the repair loop (counted from 1)
    fixed,          \* the counter of the repair loop
    polylinesOnly,  \* every oracle request so far was answered with a polyline
    oracleCalls,    \* the number of oracle requests so far
    bpc,            \* position in bridge_route_gaps
    \* ---- calculate_route (route_calculator.py)
    features,           \* the street features of the area
    G,                  \* the street graph
    sccs,               \* list(nx.strongly_connected_components(G))
    scc_i,              \* index of the component being processed
    scc_circuits,       \* (idx, G_eulerian, circuit) of the processed components
    scc_stats,          \* the statistics _make_eulerian_directed returned
    ordered_indices,    \* the order _order_sccs_by_centroid returned
    seq_idx,            \* the loop index of _stitch_scc_circuits
    stitched,           \* route_coords of _stitch_scc_circuits
    result,             \* what calculate_route returned
    rpc,                \* position in calculate_route
    \* ---- ORSClient.get_route and _make_request_with_retry (ors_client.py)
    ors_enabled,    \* ORSClient.enabled
    has_cache,      \* whether the client was given a cache
    ors_cache,      \* the routes in the cache, by (start, end)
    last_success,   \* ORSClient.last_success ("unset": the attribute does not exist)
    ors_args,       \* (start, end) of the call of get_route in progress
    attempt,        \* the loop variable of _make_request_with_retry
    sent,           \* HTTP requests sent by this call
    wait_ms,        \* the time the call is sleeping for, milliseconds
    trace,          \* what this call sent, received and slept, in order
    req_outcome,    \* how _make_request_with_retry ended
    ores,           \* what get_route returned
    ncalls,         \* calls of get_route so far
    opc,            \* position in get_route
    \* ---- connect_components (route_connector.py)
    conn_oracle,    \* what get_route may reply to the connector
    conn_G,         \* the graph connect_components was called with
    G_connected,    \* the copy the connectors are added to
    iteration,      \* the loop counter
    previous_component_count,
    conn_log,       \* "Reduced to N components (was M)", one entry per iteration
    conn_pc,        \* position in connect_components
    \* ---- Database.get_pending_job called by several workers (database.py)
    coverage_routes,    \* params->>'status' of each row, as committed
    row_lock,           \* the worker whose open transaction has locked the row
    worker_pc,          \* position of each worker in its poll loop
    worker_job,         \* the row of the worker's statement, then its job
    claim_log           \* the ids get_pending_job returned, in order

jobVars == <<jobStatus, progressLog, saved, jobRes, pc, tjob, running, cur>>
chunkVars == <<route_coords, chunk_duration_s, profile, chunks, current_chunk,
               current_length, current_time, ci, cpc>>

bridgeVars == <<oracleKind, bG, circuit, out, bidx, ri, fixed, polylinesOnly,
                oracleCalls, bpc>>
routeVars == <<features, G, sccs, scc_i, scc_circuits, scc_stats,
               ordered_indices, seq_idx, stitched, result, rpc>>

orsVars == <<ors_enabled, has_cache, ors_cache, last_success, ors_args, attempt, sent,
             wait_ms, trace, req_outcome, ores, ncalls, opc>>

connVars == <<conn_oracle, conn_G, G_connected, iteration, previous_component_count,
              conn_log, conn_pc>>

claimVars == <<coverage_routes, row_lock, worker_pc, worker_job, claim_log>>

nonJobVars == <<chunkVars, bridgeVars, routeVars, orsVars, connVars,
        claimVars>>
nonChunkVars == <<jobVars, bridgeVars, routeVars, orsVars, connVars,
        claimVars>>
nonBridgeVars == <<jobVars, chunkVars, routeVars, orsVars, connVars,
        claimVars>>
nonRouteVars == <<jobVars, chunkVars, orsVars, connVars,
        claimVars>>
nonOrsVars == <<jobVars, chunkVars, bridgeVars, routeVars, connVars,
        claimVars>>
nonClaimVars == <<jobVars, chunkVars, bridgeVars, routeVars, orsVars, connVars>>
nonConnVars == <<jobVars, chunkVars, bridgeVars, routeVars, orsVars,
        claimVars>>

vars == <<jobVars, chunkVars, bridgeVars, routeVars, orsVars, connVars,
        claimVars>>

(***************************************************************************)
(* Bounds                                                                  *)
(***************************************************************************)
MaxJobs == 2        \* job rows the external API creates
MaxManual == 1      \* calls of POST /process/manual
MaxRouteLen == 4    \* points of a route given to split_into_chunks
MaxFeatures == 3    \* street features of an area
MaxBridgeFeatures == 2  \* street features of a graph bridge_route_gaps is tried on
MaxCircuit == 2     \* edges of a circuit handed to bridge_route_gaps directly
MaxBridgeInterior == 1  \* points of an oracle polyline between its end points
MaxCalls == 3       \* calls of get_route on one client
MaxBuilderFeatures == 3 \* street features given to the graph builder alone
MaxComponents == 4  \* weak components of a graph given to connect_components
MaxEulerEdges == 5  \* edges of a graph given to _make_eulerian_directed alone
MaxWorkers == 2     \* worker instances polling one database
MaxRows == 3        \* job rows the workers poll for

(***************************************************************************)
(* Job processing                                                          *)
(***************************************************************************)
Jobs == 1..MaxJobs
ManualIds == {MaxJobs + m : m \in 1..MaxManual}   \* ids 'manual_<area>', no row
JobIds == Jobs \cup ManualIds
NoJob == 0

PollTask == 0
ManualTasks == 1..MaxManual
Tasks == {PollTask} \cup ManualTasks
NoTask == -1

\* database.py: every call runs in get_connection(), which commits on return and
\* rolls back and re-raises on any exception; a call either takes effect or raises.
DbOutcomes == {"ok", "raise"}

\* The statuses a job row goes through.
Terminal == {"completed", "completed_with_warnings", "failed"}

\* Positions of process_job at which the coroutine is suspended in an await.
Suspended == {"await_fetch", "await_calc", "sleeping"}

\* Positions inside process_job (between its first line and its return or raise).
InProcessJob(t) ==
    pc[t] \in {"pj_start", "pj_area", "pj_upd20", "await_fetch", "pj_upd50",
               "await_calc", "pj_upd80", "pj_split", "pj_upd90", "pj_save",
               "pj_complete", "pj_failed"}

\* The single-threaded event loop: a task runs from one await to the next.
CanRun(t) == cur \in {NoTask, t}

\* The task keeps the loop unless its new position is an await.
Holder(t, newpc) == IF newpc \in Suspended \cup {"idle", "stopped", "returned"}
                    THEN NoTask ELSE t

\* line 149 reads start_time, a name process_job never binds (nor does the module).
StartTimeDefined == FALSE

\* Database.update_job_status: merges status and progress into the row's params.
\* An id without a row ('manual_<area>') matches no row: the UPDATE changes nothing.
update_job_status(job, status, progress) ==
    /\ jobStatus' = IF job \in Jobs THEN [jobStatus EXCEPT ![job] = status]
                    ELSE jobStatus
    /\ progressLog' = [progressLog EXCEPT ![job] =
                        Append(@, [status |-> status, progress |-> progress])]

\* Where process_job goes after a step: on, or into its except clause.
Goto(t, newpc) ==
    /\ pc' = [pc EXCEPT ![t] = newpc]
    /\ cur' = Holder(t, newpc)

\* A progress update of the try block (lines 67, 79, 95, 115, 131).
ProgressStep(t, at, progress, next) ==
    /\ pc[t] = at
    /\ CanRun(t)
    /\ \E o \in DbOutcomes :
         IF o = "ok"
         THEN /\ update_job_status(tjob[t], "processing", progress)
              /\ Goto(t, next)
              /\ UNCHANGED jobRes
         ELSE /\ Goto(t, "pj_failed")
              /\ jobRes' = [jobRes EXCEPT ![tjob[t]].dbError = TRUE]
              /\ UNCHANGED <<jobStatus, progressLog>>
    /\ UNCHANGED <<saved, tjob, running>>
    /\ UNCHANGED nonJobVars

JobVarsInit ==
    /\ jobStatus = [j \in Jobs |-> "none"]
    /\ progressLog = [j \in JobIds |-> <<>>]
    /\ saved = [j \in JobIds |-> FALSE]
    /\ jobRes = [j \in JobIds |-> [stepsOk |-> FALSE, valid |-> FALSE, ended |-> FALSE,
                                  dbError |-> FALSE]]
    /\ pc = [t \in Tasks |-> IF t = PollTask THEN "poll" ELSE "idle"]
    /\ tjob = [t \in Tasks |-> NoJob]
    /\ running = TRUE
    /\ cur = NoTask

\* The external API inserts a job row with status pending (created_at ascending).
CreateJob ==
    /\ \E j \in Jobs :
         /\ jobStatus[j] = "none"
         /\ \A k \in Jobs : k < j => jobStatus[k] # "none"
         /\ jobStatus' = [jobStatus EXCEPT ![j] = "pending"]
    /\ UNCHANGED <<progressLog, saved, jobRes, pc, tjob, running, cur>>
    /\ UNCHANGED nonJobVars

\* Database.get_pending_job: one UPDATE ... WHERE id = (SELECT ... pending ORDER BY
\* created_at LIMIT 1 FOR UPDATE SKIP LOCKED) RETURNING: claims the oldest pending row.
PendingJobs == {j \in Jobs : jobStatus[j] = "pending"}
OldestPending == CHOOSE j \in PendingJobs : \A k \in PendingJobs : j <= k

\* JobProcessor.start, one turn of the while loop up to its await.
Poll ==
    /\ pc[PollTask] = "poll"
    /\ CanRun(PollTask)
    /\ \E o \in DbOutcomes :
         IF o = "raise"
         THEN \* except Exception: await asyncio.sleep(10)
              /\ Goto(PollTask, "sleeping")
              /\ UNCHANGED <<jobStatus, tjob>>
         ELSE IF PendingJobs # {}
              THEN /\ jobStatus' = [jobStatus EXCEPT ![OldestPending] = "processing"]
                   /\ tjob' = [tjob EXCEPT ![PollTask] = OldestPending]
                   /\ Goto(PollTask, "pj_start")
              ELSE /\ Goto(PollTask, "sleeping")
                   /\ UNCHANGED <<jobStatus, tjob>>
    /\ UNCHANGED <<progressLog, saved, jobRes, running>>
    /\ UNCHANGED nonJobVars

\* asyncio.sleep returns; the while condition self.running is evaluated again.
Wake ==
    /\ pc[PollTask] = "sleeping"
    /\ CanRun(PollTask)
    /\ Goto(PollTask, IF running THEN "poll" ELSE "stopped")
    /\ UNCHANGED <<jobStatus, progressLog, saved, jobRes, tjob, running>>
    /\ UNCHANGED nonJobVars

\* lifespan shutdown: await job_processor.stop()
Stop ==
    /\ running
    /\ cur = NoTask
    /\ running' = FALSE
    /\ UNCHANGED <<jobStatus, progressLog, saved, jobRes, pc, tjob, cur>>
    /\ UNCHANGED nonJobVars

\* POST /process/manual: builds a mock job and awaits process_job(job) in the
\* request's own task (settings.environment defaults to development).
trigger_manual_job(m) ==
    /\ pc[m] = "idle"
    /\ cur = NoTask
    /\ tjob' = [tjob EXCEPT ![m] = MaxJobs + m]
    /\ Goto(m, "pj_start")
    /\ UNCHANGED <<jobStatus, progressLog, saved, jobRes, running>>
    /\ UNCHANGED nonJobVars

\* process_job, lines 65-69
PJ_Start(t) == ProgressStep(t, "pj_start", 10, "pj_area")

\* lines 72-74: the area row, None (ValueError) or a database error
PJ_GetArea(t) ==
    /\ pc[t] = "pj_area"
    /\ CanRun(t)
    /\ \E o \in {"area", "none", "raise"} :
         Goto(t, IF o = "area" THEN "pj_upd20" ELSE "pj_failed")
    /\ UNCHANGED <<jobStatus, progressLog, saved, jobRes, tjob, running>>
    /\ UNCHANGED nonJobVars

\* lines 79-84: progress 20, then the coroutine awaits fetch_streets
PJ_Update20(t) == ProgressStep(t, "pj_upd20", 20, "await_fetch")

\* lines 84-90: fetch_streets returns streets, returns none, or raises
PJ_FetchStreets(t) ==
    /\ pc[t] = "await_fetch"
    /\ CanRun(t)
    /\ \E o \in {"streets", "empty", "raise"} :
         Goto(t, IF o = "streets" THEN "pj_upd50" ELSE "pj_failed")
    /\ UNCHANGED <<jobStatus, progressLog, saved, jobRes, tjob, running>>
    /\ UNCHANGED nonJobVars

\* PJ_Update50 writing a percentage below the one before it.
PJ_Update50_Lower(t) == ProgressStep(t, "pj_upd50", 15, "await_calc")

\* lines 95-100: progress 50, then the coroutine awaits calculate_route
PJ_Update50(t) == ProgressStep(t, "pj_upd50", 50, "await_calc")

\* lines 100-110: calculate_route returns a result with its valid flag, or raises
PJ_CalculateRoute(t) ==
    /\ pc[t] = "await_calc"
    /\ CanRun(t)
    /\ \E o \in {"valid", "invalid", "raise"} :
         /\ Goto(t, IF o = "raise" THEN "pj_failed" ELSE "pj_upd80")
         /\ jobRes' = [jobRes EXCEPT ![tjob[t]].valid = (o = "valid")]
    /\ UNCHANGED <<jobStatus, progressLog, saved, tjob, running>>
    /\ UNCHANGED nonJobVars

\* lines 115-117
PJ_Update80(t) == ProgressStep(t, "pj_upd80", 80, "pj_split")

\* lines 120-128: split_into_chunks, synchronous
PJ_Split(t) ==
    /\ pc[t] = "pj_split"
    /\ CanRun(t)
    /\ Goto(t, "pj_upd90")
    /\ UNCHANGED <<jobStatus, progressLog, saved, jobRes, tjob, running>>
    /\ UNCHANGED nonJobVars

\* lines 131-134
PJ_Update90(t) == ProgressStep(t, "pj_upd90", 90, "pj_save")

\* lines 137-143: save_route_result, one transaction: geometry, length, drive
\* time and the chunk rows are committed together, or an exception rolls back.
PJ_Save(t) ==
    /\ pc[t] = "pj_save"
    /\ CanRun(t)
    /\ \E o \in DbOutcomes :
         IF o = "ok"
         THEN /\ saved' = [saved EXCEPT ![tjob[t]] = TRUE]
              /\ jobRes' = [jobRes EXCEPT ![tjob[t]].stepsOk = TRUE]
              /\ Goto(t, "pj_complete")
         ELSE /\ Goto(t, "pj_failed")
              /\ UNCHANGED <<saved, jobRes>>
    /\ UNCHANGED <<jobStatus, progressLog, tjob, running>>
    /\ UNCHANGED nonJobVars

\* Where process_job returns to: the poll loop goes round, a request ends.
AfterJob(t) == IF t = PollTask THEN (IF running THEN "poll" ELSE "stopped")
               ELSE "returned"

\* lines 146-175: final_status, then total_time = ... - start_time, then the
\* update to final_status with progress 100.
PJ_Complete(t) ==
    /\ pc[t] = "pj_complete"
    /\ CanRun(t)
    /\ IF StartTimeDefined
       THEN \E o \in DbOutcomes :
              IF o = "ok"
              THEN /\ update_job_status(tjob[t],
                        IF jobRes[tjob[t]].valid THEN "completed"
                        ELSE "completed_with_warnings", 100)
                   /\ jobRes' = [jobRes EXCEPT ![tjob[t]].ended = TRUE]
                   /\ Goto(t, AfterJob(t))
              ELSE /\ Goto(t, "pj_failed")
                   /\ jobRes' = [jobRes EXCEPT ![tjob[t]].dbError = TRUE]
                   /\ UNCHANGED <<jobStatus, progressLog>>
       ELSE \* NameError, an Exception: the except clause runs
            /\ Goto(t, "pj_failed")
            /\ UNCHANGED <<jobStatus, progressLog, jobRes>>
    /\ UNCHANGED <<saved, tjob, running>>
    /\ UNCHANGED nonJobVars

\* lines 177-189: the except clause marks the job failed with progress 0; when
\* this update raises too, the exception leaves process_job (start() catches it
\* and sleeps 10 s, trigger_manual_job answers 500).
PJ_Failed(t) ==
    /\ pc[t] = "pj_failed"
    /\ CanRun(t)
    /\ \E o \in DbOutcomes :
         IF o = "ok"
         THEN /\ update_job_status(tjob[t], "failed", 0)
              /\ jobRes' = [jobRes EXCEPT ![tjob[t]].ended = TRUE]
              /\ Goto(t, AfterJob(t))
         ELSE /\ Goto(t, IF t = PollTask THEN "sleeping" ELSE "returned")
              /\ jobRes' = [jobRes EXCEPT ![tjob[t]].ended = TRUE,
                                           ![tjob[t]].dbError = TRUE]
              /\ UNCHANGED <<jobStatus, progressLog>>
    /\ UNCHANGED <<saved, tjob, running>>
    /\ UNCHANGED nonJobVars

JobNext ==
    \/ CreateJob
    \/ Poll
    \/ Wake
    \/ Stop
    \/ \E m \in ManualTasks : trigger_manual_job(m)
    \/ \E t \in Tasks : PJ_Start(t)
    \/ \E t \in Tasks : PJ_GetArea(t)
    \/ \E t \in Tasks : PJ_Update20(t)
    \/ \E t \in Tasks : PJ_FetchStreets(t)
    \/ \E t \in Tasks : PJ_Update50(t)
    \/ \E t \in Tasks : PJ_CalculateRoute(t)
    \/ \E t \in Tasks : PJ_Update80(t)
    \/ \E t \in Tasks : PJ_Split(t)
    \/ \E t \in Tasks : PJ_Update90(t)
    \/ \E t \in Tasks : PJ_Save(t)
    \/ \E t \in Tasks : PJ_Complete(t)
    \/ \E t \in Tasks : PJ_Failed(t)

(***************************************************************************)
(* split_into_chunks (route_calculator.py, lines 543-630)                  *)
(***************************************************************************)
\* Positions (metres) the points of a route to split are drawn from.
ChunkPoints == {0, 100, 300}
ChunkDurations == {10, 25}
Profiles == {"driving-car", "driving-hgv", "cycling-regular", "foot-walking", "other"}

\* GEOD.inv(...)[2]: the geodesic distance of two points, metres.
Dist(a, b) == IF a >= b THEN a - b ELSE b - a

\* speed_by_profile.get(profile, 10.0), in decimetres per second.
SpeedDms(p) ==
    CASE p = "driving-car" -> 100
      [] p = "driving-hgv" -> 80
      [] p = "cycling-regular" -> 40
      [] p = "foot-walking" -> 14
      [] OTHER -> 100

\* segment_time = segment_length / avg_speed_mps. Times are kept exactly, as
\* numerators over the speed: a time of t stands for t / SpeedDms(profile) seconds.
SegmentTime(len) == len * 10

\* current_time >= chunk_duration_s
TimeReached(t, dur, p) == t >= dur * SpeedDms(p)

\* A chunk dict: geometry coordinates, length_m, time_s (chunk_id is its index).
Chunk(coords, len, t) == [geometry |-> coords, length_m |-> len, time_s |-> t]

RECURSIVE SeqsUpTo(_, _)
\* All sequences over S of length at most n.
SeqsUpTo(S, n) ==
    IF n = 0 THEN {<<>>}
    ELSE LET shorter == SeqsUpTo(S, n - 1)
         IN  shorter \cup {Append(q, x) : q \in {r \in shorter : Len(r) = n - 1}, x \in S}

ChunkIdle ==
    /\ route_coords = <<>>
    /\ chunk_duration_s = 0
    /\ profile = "driving-car"
    /\ chunks = <<>>
    /\ current_chunk = <<>>
    /\ current_length = 0
    /\ current_time = 0
    /\ ci = 0
    /\ cpc = "idle"

\* The arguments of a call of split_into_chunks.
ChunkVarsInit ==
    /\ route_coords \in SeqsUpTo(ChunkPoints, MaxRouteLen)
    /\ chunk_duration_s \in ChunkDurations
    /\ profile \in Profiles
    /\ chunks = <<>>
    /\ current_chunk = <<>>
    /\ current_length = 0
    /\ current_time = 0
    /\ ci = 0
    /\ cpc = "start"

\* lines 561-576: a route of fewer than 2 points gives no chunks
ChunkStart ==
    /\ cpc = "start"
    /\ cpc' = IF Len(route_coords) < 2 THEN "done" ELSE "loop"
    /\ ci' = 1
    /\ UNCHANGED <<route_coords, chunk_duration_s, profile, chunks, current_chunk,
                   current_length, current_time>>
    /\ UNCHANGED nonChunkVars

\* lines 578-611: one iteration of for i in range(len(route_coords) - 1)
\* (ci is i + 1: sequences are 1-based)
ChunkStep ==
    /\ cpc = "loop"
    /\ ci <= Len(route_coords) - 1
    /\ LET segment_length == Dist(route_coords[ci], route_coords[ci + 1])
           len == current_length + segment_length
           t == current_time + SegmentTime(segment_length)
           filled == Append(current_chunk, route_coords[ci])
       IN  IF TimeReached(t, chunk_duration_s, profile)
           THEN /\ chunks' = Append(chunks,
                                Chunk(Append(filled, route_coords[ci + 1]), len, t))
                /\ current_chunk' = <<route_coords[ci + 1]>>
                /\ current_time' = 0
                /\ current_length' = 0
           ELSE /\ current_chunk' = filled
                /\ current_time' = t
                /\ current_length' = len
                /\ UNCHANGED chunks
    /\ ci' = ci + 1
    /\ UNCHANGED <<route_coords, chunk_duration_s, profile, cpc>>
    /\ UNCHANGED nonChunkVars

\* lines 613-630: the remaining points as the final chunk, then return
ChunkTail ==
    /\ cpc = "loop"
    /\ ci > Len(route_coords) - 1
    /\ chunks' = IF Len(current_chunk) > 1
                 THEN Append(chunks, Chunk(current_chunk, current_length, current_time))
                 ELSE chunks
    /\ cpc' = "done"
    /\ UNCHANGED <<route_coords, chunk_duration_s, profile, current_chunk,
                   current_length, current_time, ci>>
    /\ UNCHANGED nonChunkVars

ChunkNext ==
    \/ ChunkStart
    \/ ChunkStep
    \/ ChunkTail

(***************************************************************************)
(* Street graphs: networkx.MultiDiGraph as built by graph_builder.py       *)
(***************************************************************************)
\* A node is a coordinate. An edge carries its endpoints, its key among the
\* parallel edges u -> v (networkx numbers them 0, 1, ... as they are added),
\* its length in metres and its geometry, a sequence of coordinates.
EmptyGraph == [nodes |-> {}, edges |-> {}]

EdgesBetween(g, u, v) == {e \in g.edges : e.u = u /\ e.v = v}

\* g.add_edge(u, v, length=..., geometry=...)
add_edge(g, u, v, len, geom) ==
    [nodes |-> g.nodes \cup {u, v},
     edges |-> g.edges \cup {[u |-> u, v |-> v, key |-> Cardinality(EdgesBetween(g, u, v)),
                              length |-> len, geometry |-> geom]}]

has_edge(g, u, v) == EdgesBetween(g, u, v) # {}
out_degree(g, n) == Cardinality({e \in g.edges : e.u = n})
in_degree(g, n) == Cardinality({e \in g.edges : e.v = n})
number_of_edges(g) == Cardinality(g.edges)

\* min(g.get_edge_data(u, v).values(), key=lambda d: d.get('length', inf)): the
\* shortest of the parallel edges, the one added first among equally short ones.
MinEdge(g, u, v) ==
    CHOOSE e \in EdgesBetween(g, u, v) :
        \A f \in EdgesBetween(g, u, v) :
            e.length < f.length \/ (e.length = f.length /\ e.key <= f.key)

RECURSIVE _geodesic_length(_)
\* GraphBuilder._geodesic_length: the sum of the distances of consecutive points.
_geodesic_length(coords) ==
    IF Len(coords) < 2 THEN 0
    ELSE Dist(coords[1], coords[2]) + _geodesic_length(Tail(coords))

Reverse(q) == [i \in 1..Len(q) |-> q[Len(q) + 1 - i]]

\* settings.snap_tolerance is 1e-6 degrees: at most 111 mm on the ground.
snap_tolerance_mm == 111

\* _split_at_intersections: snap_tolerance_m = 0.5, in millimetres.
split_snap_mm == 500

\* |x| of an integer.
Abs(x) == IF x < 0 THEN -x ELSE x

\* |x| of an integer.

\* The points of a line.
Vertices(line) == {line[i] : i \in 1..Len(line)}

\* _split_at_intersections, inner loop: the places where line meets
\* snap(other, line, 0.5 m), for lines that meet at isolated vertices. snap()
\* moves a vertex of other onto a vertex of line that is within the tolerance,
\* so the meeting points are the vertices of line that have a vertex of other
\* within 0.5 m. step is the length of one grid step in millimetres.
IntersectionIdx(line, other, step) ==
    {k \in 1..Len(line) :
        \E q \in Vertices(other) : Abs(line[k] - q) * step < split_snap_mm}

RECURSIVE _split_line_at_points(_, _, _)
\* GraphBuilder._split_line_at_points for split points that are vertices of
\* the line, given by their index, from index `from` on. A point that projects
\* to distance 0 or to the whole length (an end vertex) is skipped; at an
\* interior vertex seg1 ends with the split point and the rest starts with
\* split_point followed by coords[i+1:], which repeats the split point.
_split_line_at_points(line, from, cuts) ==
    LET inner == {k \in cuts : k > from /\ k < Len(line)}
        head == IF from = 1 THEN <<>> ELSE <<line[from]>>
    IN  IF inner = {}
        THEN << head \o SubSeq(line, from, Len(line)) >>
        ELSE LET k == CHOOSE x \in inner : \A y \in inner : x <= y
             IN  << head \o SubSeq(line, from, k) >>
                 \o _split_line_at_points(line, k, cuts)

RECURSIVE Flatten(_)
\* segments.extend(...) over a sequence of sequences.
Flatten(ss) == IF ss = <<>> THEN <<>> ELSE Head(ss) \o Flatten(Tail(ss))

\* _split_at_intersections, one turn of the outer loop: the segments line i
\* is split into at the points where it meets the other lines.
SegmentsOf(lines, i, step) ==
    _split_line_at_points(lines[i], 1,
        UNION {IntersectionIdx(lines[i], lines[j], step) :
                   j \in (1..Len(lines)) \ {i}})

\* GraphBuilder._split_at_intersections: every line is split at the points
\* where it meets the other lines. The projection to UTM and back moves a point
\* by far less than a grid step, so it returns the grid point it was given.
_split_at_intersections(lines, step) ==
    Flatten([i \in 1..Len(lines) |-> SegmentsOf(lines, i, step)])

RECURSIVE get_or_create_node(_, _, _)
\* get_or_create_node inside _build_graph_from_segments: the first node of
\* node_index within snap_tolerance of the point, else the point itself.
get_or_create_node(node_index, point, step) ==
    IF node_index = <<>> THEN point
    ELSE IF Abs(Head(node_index) - point) * step < snap_tolerance_mm
         THEN Head(node_index)
         ELSE get_or_create_node(Tail(node_index), point, step)

\* node_index after get_or_create_node(point).
Indexed(node_index, point, step) ==
    IF get_or_create_node(node_index, point, step) = point
       /\ point \notin Vertices(node_index)
    THEN Append(node_index, point)
    ELSE node_index

RECURSIVE _build_graph_from_segments(_, _, _, _, _, _)
\* GraphBuilder._build_graph_from_segments: a forward edge per segment between
\* the snapped end nodes, carrying the segment's own coords as geometry, and,
\* unless props_list[0] says oneway, the reverse edge with the reversed coords.
_build_graph_from_segments(g, node_index, segments, seg_i, props_list, step) ==
    IF seg_i > Len(segments) THEN g
    ELSE LET coords == segments[seg_i]
             start == get_or_create_node(node_index, coords[1], step)
             index1 == Indexed(node_index, coords[1], step)
             end == get_or_create_node(index1, coords[Len(coords)], step)
             index2 == Indexed(index1, coords[Len(coords)], step)
             length_m == _geodesic_length(coords)
             props == props_list[1]
             fwd == add_edge(g, start, end, length_m, coords)
             both == IF ~props.oneway
                     THEN add_edge(fwd, end, start, length_m, Reverse(coords))
                     ELSE fwd
         IN  _build_graph_from_segments(both, index2, segments, seg_i + 1,
                                        props_list, step)

\* GraphBuilder.build_street_graph on a grid of the given step (millimetres).
GraphBuilder_build(streets, step) ==
    IF streets = <<>> THEN EmptyGraph
    ELSE _build_graph_from_segments(EmptyGraph, <<>>,
            _split_at_intersections(
                [i \in 1..Len(streets) |-> streets[i].coords], step),
            1,
            [i \in 1..Len(streets) |-> [oneway |-> streets[i].oneway]],
            step)

\* GraphBuilder.build_street_graph for features given in whole metres.
build_street_graph(streets) == GraphBuilder_build(streets, 1000)

RECURSIVE Closure(_, _)
\* The nodes reachable from the set S along edges of g.
Closure(g, S) ==
    LET more == S \cup {e.v : e \in {f \in g.edges : f.u \in S}}
    IN  IF more = S THEN S ELSE Closure(g, more)

Reaches(g, a, b) == b \in Closure(g, {a})

\* nx.strongly_connected_components(g), as a set of node sets
strongly_connected_components(g) ==
    {{w \in g.nodes : Reaches(g, v, w) /\ Reaches(g, w, v)} : v \in g.nodes}

\* g.subgraph(nodes).copy()
subgraph(g, S) ==
    [nodes |-> g.nodes \cap S, edges |-> {e \in g.edges : e.u \in S /\ e.v \in S}]

Undirected(g) ==
    [nodes |-> g.nodes,
     edges |-> g.edges \cup {[e EXCEPT !.u = e.v, !.v = e.u] : e \in g.edges}]

\* nx.is_weakly_connected(g) (networkx raises on a graph without nodes)
is_weakly_connected(g) ==
    \A a \in g.nodes : Closure(Undirected(g), {a}) = g.nodes

\* nx.weakly_connected_components(g)
weakly_connected_components(g) == {Closure(Undirected(g), {a}) : a \in g.nodes}

\* nx.is_strongly_connected(g)
is_strongly_connected(g) ==
    \A a \in g.nodes : Closure(g, {a}) = g.nodes

RECURSIVE SetToSeq(_)
\* The elements of a finite set in some fixed order.
SetToSeq(S) ==
    IF S = {} THEN <<>>
    ELSE LET x == CHOOSE y \in S : TRUE IN <<x>> \o SetToSeq(S \ {x})

(***************************************************************************)
(* The routing oracle: ORSClient.route_between_points (ors_client.py)      *)
(***************************************************************************)
OraclePoints == {20, 40}      \* points a routed polyline may pass through
OracleKinds == {"straight", "dense", "any"}

RECURSIVE DensePath(_, _)
\* A polyline from a to b whose points are at most 20 m apart.
DensePath(a, b) ==
    IF Dist(a, b) <= 20 THEN <<a, b>>
    ELSE <<a>> \o DensePath(IF a < b THEN a + 20 ELSE a - 20, b)

\* What a request for a route from a to b may come back with: raised tells that
\* the call raised, coords is the polyline it returned otherwise.
\*   "straight": the two points themselves, which is what route_between_points
\*               returns when ORS is disabled and get_route when ORS failed;
\*   "dense":    a routed polyline with points at most 20 m apart;
\*   "any":      any oracle: it raises, returns an empty or one-point list, or
\*               a polyline through up to MaxBridgeInterior points that runs
\*               from a to b or begins and ends beside them.
OracleReplies(kind, a, b) ==
    IF a = b THEN {[raised |-> FALSE, coords |-> <<a>>]}
    ELSE IF kind = "straight" THEN {[raised |-> FALSE, coords |-> <<a, b>>]}
    ELSE IF kind = "dense" THEN {[raised |-> FALSE, coords |-> DensePath(a, b)]}
    ELSE {[raised |-> TRUE, coords |-> <<>>],
          [raised |-> FALSE, coords |-> <<>>],
          [raised |-> FALSE, coords |-> <<a>>]}
         \cup {[raised |-> FALSE, coords |-> <<a>> \o mid \o <<b>>] :
                   mid \in SeqsUpTo(OraclePoints, MaxBridgeInterior)}
         \cup {[raised |-> FALSE, coords |-> <<p>> \o mid \o <<q>>] :
                   p \in OraclePoints, q \in OraclePoints,
                   mid \in SeqsUpTo(OraclePoints, MaxBridgeInterior)}

NoReply == [raised |-> FALSE, coords |-> <<>>]
IsPolyline(reply) == ~reply.raised /\ Len(reply.coords) > 1

(***************************************************************************)
(* bridge_route_gaps and _repair_continuity (route_connector.py)           *)
(***************************************************************************)
MAX_FIXES == 200      \* _repair_continuity: hard stop
ORS_GAP_M == 20       \* gaps above this are routed, in the walk and in the repair

\* _align: the geometry reversed if its first point is nearer to v than to u,
\* with both end points set to u and v.
_align(u, v, coords) ==
    IF Len(coords) < 2 THEN <<u, v>>
    ELSE LET sqd(A, B) == (A - B) * (A - B)
             c == IF sqd(coords[1], u) > sqd(coords[1], v) THEN Reverse(coords)
                  ELSE coords
         IN  [c EXCEPT ![1] = u, ![Len(c)] = v]

\* get_edge_geom(u, v) with use_edge_keys False: the geometry of the shortest
\* edge u -> v, aligned; the straight line if there is no edge or no geometry.
get_edge_geom(g, u, v) ==
    IF ~has_edge(g, u, v) THEN <<u, v>>
    ELSE LET geom == MinEdge(g, u, v).geometry
         IN  IF geom = <<>> THEN <<u, v>>
             ELSE LET seg == _align(u, v, geom)
                  IN  [seg EXCEPT ![1] = u, ![Len(seg)] = v]

BridgeIdle ==
    /\ bG = EmptyGraph /\ circuit = <<>> /\ out = <<>>
    /\ bidx = 0 /\ ri = 0 /\ fixed = 0 /\ polylinesOnly = TRUE /\ oracleCalls = 0
    /\ bpc = "idle"

\* bridge_route_gaps is entered: an empty circuit returns [] at once.
BridgeEnter ==
    /\ bpc = "call"
    /\ out' = <<>>
    /\ bidx' = 1
    /\ bpc' = IF circuit = <<>> THEN "done" ELSE "walk"
    /\ UNCHANGED <<oracleKind, bG, circuit, ri, fixed, polylinesOnly, oracleCalls>>
    /\ UNCHANGED nonBridgeVars

\* The bridge as the oracle returned it, its ends left where they are.
SnapEnds_AsReturned(bridge, a, b) == bridge

\* bridge[0] = a; bridge[-1] = b: "snap ends to kill sub-meter drift".
SnapEnds(bridge, a, b) == [bridge EXCEPT ![1] = a, ![Len(bridge)] = b]

\* One round of the main walk: the geometry of circuit[bidx] is appended, after
\* a routed bridge if it begins more than 20 m from the end of the polyline.
\* After the last edge the repair pass begins.
BridgeWalk ==
    /\ bpc = "walk"
    /\ bidx <= Len(circuit)
    /\ LET u == circuit[bidx][1]
           v == circuit[bidx][2]
           seg == get_edge_geom(bG, u, v)
           last_pt == out[Len(out)]
           first_pt == seg[1]
           gap == IF out = <<>> THEN 0 ELSE Dist(last_pt, first_pt)
           asks == out # <<>> /\ gap > ORS_GAP_M
       IN  \E reply \in (IF asks THEN OracleReplies(oracleKind, last_pt, first_pt)
                         ELSE {NoReply}) :
             /\ out' = IF out = <<>> THEN seg
                       ELSE IF gap = 0 THEN out \o Tail(seg)
                       ELSE IF gap <= ORS_GAP_M THEN out \o <<first_pt>> \o Tail(seg)
                       ELSE IF IsPolyline(reply)
                            THEN LET bridge == SnapEnds(reply.coords, last_pt, first_pt)
                                 IN  out \o Tail(bridge) \o Tail(seg)
                            ELSE out \o <<first_pt>> \o Tail(seg)
             /\ polylinesOnly' = (polylinesOnly /\ (asks => IsPolyline(reply)))
             /\ oracleCalls' = oracleCalls + (IF asks THEN 1 ELSE 0)
    /\ bidx' = bidx + 1
    /\ bpc' = IF bidx = Len(circuit) THEN "repair" ELSE "walk"
    /\ ri' = 1
    /\ fixed' = 0
    /\ UNCHANGED <<oracleKind, bG, circuit>>
    /\ UNCHANGED nonBridgeVars

\* The cursor left where it is after a bridge was inserted.
Advance_Stay(bridge) == 0

\* i += max(1, len(bridge) - 1): "advance past inserted polyline"
Advance(bridge) == IF Len(bridge) - 1 > 1 THEN Len(bridge) - 1 ELSE 1

\* One round of the loop of _repair_continuity.
RepairStep ==
    /\ bpc = "repair"
    /\ ri < Len(out) /\ fixed < MAX_FIXES
    /\ LET a == out[ri]
           b == out[ri + 1]
           gap == Dist(a, b)
           asks == gap > ORS_GAP_M
       IN  \E reply \in (IF asks THEN OracleReplies(oracleKind, a, b) ELSE {NoReply}) :
             /\ IF ~asks
                THEN /\ ri' = ri + 1
                     /\ UNCHANGED <<out, fixed>>
                ELSE IF IsPolyline(reply)
                THEN LET bridge == SnapEnds(reply.coords, a, b)
                     IN  /\ out' = SubSeq(out, 1, ri - 1) \o bridge
                                   \o SubSeq(out, ri + 2, Len(out))
                         /\ fixed' = fixed + 1
                         /\ ri' = ri + Advance(bridge)
                ELSE /\ out' = [out EXCEPT ![ri + 1] = a]
                     /\ fixed' = fixed + 1
                     /\ ri' = ri + 1
             /\ polylinesOnly' = (polylinesOnly /\ (asks => IsPolyline(reply)))
             /\ oracleCalls' = oracleCalls + (IF asks THEN 1 ELSE 0)
    /\ UNCHANGED <<oracleKind, bG, circuit, bidx, bpc>>
    /\ UNCHANGED nonBridgeVars

\* The repair loop ends and bridge_route_gaps returns out.
BridgeReturn ==
    /\ bpc = "repair"
    /\ ~(ri < Len(out) /\ fixed < MAX_FIXES)
    /\ bpc' = "done"
    /\ UNCHANGED <<oracleKind, bG, circuit, out, bidx, ri, fixed, polylinesOnly,
                   oracleCalls>>
    /\ UNCHANGED nonBridgeVars

BridgeNext == BridgeEnter \/ BridgeWalk \/ RepairStep \/ BridgeReturn

(***************************************************************************)
(* _make_eulerian_directed (route_calculator.py)                           *)
(***************************************************************************)
RECURSIVE SumFn(_)
\* The sum of the values of a function with a finite domain.
SumFn(f) ==
    IF DOMAIN f = {} THEN 0
    ELSE LET x == CHOOSE y \in DOMAIN f : TRUE
         IN  f[x] + SumFn([y \in DOMAIN f \ {x} |-> f[y]])

\* The balance with the sign turned: in-degree - out-degree.
balance_InMinusOut(H) == [v \in H.nodes |-> in_degree(H, v) - out_degree(H, v)]

\* balance = {v: H.out_degree(v) - H.in_degree(v) for v in H.nodes()}
balance(H) == [v \in H.nodes |-> out_degree(H, v) - in_degree(H, v)]
supply_nodes(H) == {v \in H.nodes : balance(H)[v] < 0}
demand_nodes(H) == {v \in H.nodes : balance(H)[v] > 0}

RECURSIVE SimplePathsFrom(_, _, _)
\* The simple paths of H that extend path and end in d, as node sequences.
SimplePathsFrom(H, path, d) ==
    LET last == path[Len(path)]
        seen == {path[i] : i \in 1..Len(path)}
    IN  IF last = d THEN {path}
        ELSE UNION {SimplePathsFrom(H, Append(path, w), d) :
                        w \in {e.v : e \in {f \in H.edges : f.u = last}} \ seen}

\* The weight of a path under weight='length': networkx weighs a hop u -> v of
\* a multigraph by the shortest of its parallel edges.
PathLength(H, path) ==
    SumFn([i \in 1..(Len(path) - 1) |-> MinEdge(H, path[i], path[i + 1]).length])

\* nx.single_source_dijkstra(H, s, weight='length'): the paths to d it may
\* return, the shortest ones; none if d is not reachable from s.
ShortestPaths(H, s, d) ==
    LET all == SimplePathsFrom(H, <<s>>, d)
    IN  {q \in all : \A r \in all : PathLength(H, q) <= PathLength(H, r)}

\* The arcs of the flow network F: the pairs with dist[s][d] < inf.
FlowArcs(H) ==
    {a \in supply_nodes(H) \X demand_nodes(H) : ShortestPaths(H, a[1], a[2]) # {}}

\* cost = int(dist[s][d] * 1000), capacity = abs(balance[s]) + abs(balance[d])
ArcCost(H, a) ==
    LET q == CHOOSE r \in ShortestPaths(H, a[1], a[2]) : TRUE
    IN  PathLength(H, q) * 1000
ArcCapacity(H, a) == Abs(balance(H)[a[1]]) + Abs(balance(H)[a[2]])

\* The feasible flows of F: every supply node sends -balance, every demand
\* node receives balance, within the capacities.
FeasibleFlows(H) ==
    LET arcs == FlowArcs(H)
        maxCap == SumFn([v \in supply_nodes(H) |-> -balance(H)[v]])
    IN  {f \in [arcs -> 0..maxCap] :
            /\ \A a \in arcs : f[a] <= ArcCapacity(H, a)
            /\ \A s \in supply_nodes(H) :
                 SumFn([a \in {b \in arcs : b[1] = s} |-> f[a]]) = -balance(H)[s]
            /\ \A d \in demand_nodes(H) :
                 SumFn([a \in {b \in arcs : b[2] = d} |-> f[a]]) = balance(H)[d]}

FlowCost(H, f) == SumFn([a \in DOMAIN f |-> f[a] * ArcCost(H, a)])

RECURSIVE GreedyFlow(_, _, _, _)
\* _simple_flow_fallback: the pairs in list order, each given as much as both
\* ends still need.
GreedyFlow(pairs, remaining_supply, remaining_demand, flow) ==
    IF pairs = <<>> THEN flow
    ELSE LET s == pairs[1][1]
             d == pairs[1][2]
             amount == IF remaining_supply[s] < remaining_demand[d]
                       THEN remaining_supply[s] ELSE remaining_demand[d]
         IN  IF remaining_supply[s] > 0 /\ remaining_demand[d] > 0
             THEN GreedyFlow(Tail(pairs),
                             [remaining_supply EXCEPT ![s] = @ - amount],
                             [remaining_demand EXCEPT ![d] = @ - amount],
                             [a \in DOMAIN flow \cup {pairs[1]} |->
                                  IF a = pairs[1] THEN amount ELSE flow[a]])
             ELSE GreedyFlow(Tail(pairs), remaining_supply, remaining_demand, flow)

_simple_flow_fallback(H) ==
    LET S == SetToSeq(supply_nodes(H))
        D == SetToSeq(demand_nodes(H))
        pairs == [k \in 1..(Len(S) * Len(D)) |->
                     <<S[((k - 1) \div Len(D)) + 1], D[((k - 1) % Len(D)) + 1]>>]
    IN  GreedyFlow(pairs,
                   [v \in supply_nodes(H) |-> -balance(H)[v]],
                   [v \in demand_nodes(H) |-> balance(H)[v]],
                   [a \in {} |-> 0])

\* flow_dict: what nx.min_cost_flow(F) may return, a feasible flow of least
\* cost; the greedy fallback when F has no feasible flow.
FlowDicts(H) ==
    IF FeasibleFlows(H) # {}
    THEN {f \in FeasibleFlows(H) :
              \A g \in FeasibleFlows(H) : FlowCost(H, f) <= FlowCost(H, g)}
    ELSE {_simple_flow_fallback(H)}

RECURSIVE DuplicateAlongPath(_, _)
\* The edges of one path duplicated once: for every hop the shortest parallel
\* edge is added again. acc carries H, total_duplicated_length and edges_added.
DuplicateAlongPath(acc, path) ==
    IF Len(path) < 2 THEN acc
    ELSE LET u == path[1]
             v == path[2]
             edge_data == MinEdge(acc.H, u, v)
             next == IF has_edge(acc.H, u, v)
                     THEN [H |-> add_edge(acc.H, u, v, edge_data.length, edge_data.geometry),
                           total_duplicated_length |->
                               acc.total_duplicated_length + edge_data.length,
                           edges_added |-> acc.edges_added + 1]
                     ELSE acc
         IN  DuplicateAlongPath(next, Tail(path))

RECURSIVE DuplicateTimes(_, _, _)
DuplicateTimes(acc, path, flow) ==
    IF flow <= 0 THEN acc
    ELSE DuplicateTimes(DuplicateAlongPath(acc, path), path, flow - 1)

RECURSIVE DuplicateFlows(_, _, _, _)
\* The loop over flow_dict: arcs with a positive flow and a path are duplicated.
DuplicateFlows(acc, arcs, flow_dict, paths) ==
    IF arcs = <<>> THEN acc
    ELSE LET a == arcs[1]
             next == IF flow_dict[a] > 0 /\ a \in DOMAIN paths
                     THEN DuplicateTimes(acc, paths[a], flow_dict[a])
                     ELSE acc
         IN  DuplicateFlows(next, Tail(arcs), flow_dict, paths)

SumOfLengths(g) == SumFn([e \in g.edges |-> e.length])

\* _make_eulerian_directed(G): the pairs (H, stats) it may return. The choice
\* is that of the library: which shortest path Dijkstra reports among equally
\* short ones and which flow min_cost_flow reports among equally cheap ones.
\* deadhead_ratio is the fraction <<duplicated length, original length>>.
_make_eulerian_directed(g) ==
    IF supply_nodes(g) = {} /\ demand_nodes(g) = {}
    THEN {[H |-> g,
           stats |-> [imbalanced_nodes |-> 0, duplicated_length_m |-> 0,
                      deadhead_ratio |-> <<0, 1>>]]}
    ELSE LET arcs == FlowArcs(g)
             start == [H |-> g, total_duplicated_length |-> 0, edges_added |-> 0]
         IN  {LET r == DuplicateFlows(start, SetToSeq(DOMAIN flow_dict), flow_dict, paths)
                  original_length == SumOfLengths(g)
              IN  [H |-> r.H,
                   stats |-> [imbalanced_nodes |->
                                  Cardinality(supply_nodes(g)) + Cardinality(demand_nodes(g)),
                              duplicated_length_m |-> r.total_duplicated_length,
                              edges_added |-> r.edges_added,
                              deadhead_ratio |->
                                  IF original_length > 0
                                  THEN <<r.total_duplicated_length, original_length>>
                                  ELSE <<0, 1>>]] :
                  flow_dict \in FlowDicts(g),
                  paths \in {p \in [arcs -> UNION {ShortestPaths(g, a[1], a[2]) : a \in arcs}] :
                                 \A a \in arcs : p[a] \in ShortestPaths(g, a[1], a[2])}}

\* _validate_eulerian_directed: in_degree == out_degree for all nodes
_validate_eulerian_directed(H) ==
    \A n \in H.nodes : in_degree(H, n) = out_degree(H, n)

(***************************************************************************)
(* calculate_route (route_calculator.py)                                   *)
(***************************************************************************)
max_gap_meters == 30      \* settings.max_gap_meters, RouteCalculator.max_gap

\* The streets an area is made of. A line gives the distances along the
\* street; two lines meet only where they share an end point.
StreetLines ==
    << <<0, 25>>, <<25, 0>>, <<0, 40, 25>>, <<25, 60>>, <<60, 0>>,
       <<100, 120>>, <<120, 100>> >>

RECURSIVE SortedSeq(_)
SortedSeq(S) ==
    IF S = {} THEN <<>>
    ELSE LET x == CHOOSE y \in S : \A z \in S : y <= z
         IN  <<x>> \o SortedSeq(S \ {x})

\* The feature collections of up to MaxFeatures streets, each with its own
\* oneway property.
FeatureInputs ==
    UNION {{[i \in 1..Cardinality(S) |->
                [coords |-> StreetLines[SortedSeq(S)[i]], oneway |-> fl[i]]] :
              fl \in [1..Cardinality(S) -> BOOLEAN]} :
           S \in {T \in SUBSET (1..Len(StreetLines)) : Cardinality(T) <= MaxFeatures}}

Perms(S) ==
    {q \in [1..Cardinality(S) -> S] :
        \A i, j \in 1..Cardinality(S) : i # j => q[i] # q[j]}

\* The number of parallel edges of every pair (u, v) of H.
PairCount(H) ==
    [p \in {<<e.u, e.v>> : e \in H.edges} |-> Cardinality(EdgesBetween(H, p[1], p[2]))]

RECURSIVE EulerTrails(_, _)
\* The walks from v that use every remaining edge exactly once.
EulerTrails(v, cnt) ==
    IF \A p \in DOMAIN cnt : cnt[p] = 0 THEN {<<>>}
    ELSE UNION {{<<p>> \o t : t \in EulerTrails(p[2], [cnt EXCEPT ![p] = @ - 1])} :
                   p \in {q \in DOMAIN cnt : q[1] = v /\ cnt[q] > 0}}

\* nx.is_eulerian(H) for a directed graph
is_eulerian(H) == _validate_eulerian_directed(H) /\ is_strongly_connected(H)

\* list(nx.eulerian_circuit(H)): the circuits the library may return, as (u, v)
\* pairs, from whichever node it starts at. It raises on a graph that is not
\* Eulerian, and the circuit is then list(H.edges()), the edges in some order.
Circuits(H) ==
    IF is_eulerian(H)
    THEN UNION {EulerTrails(source, PairCount(H)) : source \in H.nodes}
    ELSE {[i \in 1..Cardinality(H.edges) |->
              <<SetToSeq(H.edges)[i].u, SetToSeq(H.edges)[i].v>>]}

\* The centroid of the nodes of a graph, as the pair <<sum, count>>.
Centroid(g) ==
    IF g.nodes = {} THEN <<0, 1>>
    ELSE <<SumFn([n \in g.nodes |-> n]), Cardinality(g.nodes)>>

\* Whether centroid x is nearer to centroid l than centroid y is: the
\* comparison dist < best_dist on the fractions sum / count.
CentroidNearer(l, x, y) ==
    Abs(l[1] * x[2] - x[1] * l[2]) * y[2] < Abs(l[1] * y[2] - y[1] * l[2]) * x[2]

RECURSIVE NearestNeighbour(_, _, _)
\* The loop of _order_sccs_by_centroid: the nearest unvisited centroid next,
\* the lowest index among equally near ones.
NearestNeighbour(centroids, order, unvisited) ==
    IF unvisited = {} THEN order
    ELSE LET last_centroid == centroids[order[Len(order)] + 1]
             best_idx == CHOOSE b \in unvisited :
                 \A o \in unvisited \ {b} :
                     \/ CentroidNearer(last_centroid, centroids[b + 1], centroids[o + 1])
                     \/ /\ ~CentroidNearer(last_centroid, centroids[o + 1], centroids[b + 1])
                        /\ b < o
         IN  NearestNeighbour(centroids, Append(order, best_idx), unvisited \ {best_idx})

\* _order_sccs_by_centroid(scc_graphs): positions 0 .. n-1 of the list it is given
_order_sccs_by_centroid(scc_graphs) ==
    IF Len(scc_graphs) <= 1 THEN [i \in 1..Len(scc_graphs) |-> i - 1]
    ELSE NearestNeighbour([i \in 1..Len(scc_graphs) |-> Centroid(scc_graphs[i])],
                          <<0>>, 1..(Len(scc_graphs) - 1))

\* The validation with the threshold of the repair pass in place of max_gap.
_validate_continuity_RepairThreshold(coords) ==
    LET idxs == [i \in 1..(Len(coords) - 1) |-> i]
        bad == SelectSeq(idxs, LAMBDA i : Dist(coords[i], coords[i + 1]) > ORS_GAP_M)
        violations == [k \in 1..Len(bad) |->
                          <<bad[k] - 1, Dist(coords[bad[k]], coords[bad[k] + 1])>>]
    IN  [is_valid |-> Len(violations) = 0, violations |-> violations]

\* _validate_continuity(coords): the hops above max_gap, as (index, distance)
_validate_continuity(coords) ==
    LET idxs == [i \in 1..(Len(coords) - 1) |-> i]
        bad == SelectSeq(idxs, LAMBDA i : Dist(coords[i], coords[i + 1]) > max_gap_meters)
        violations == [k \in 1..Len(bad) |->
                          <<bad[k] - 1, Dist(coords[bad[k]], coords[bad[k] + 1])>>]
    IN  [is_valid |-> Len(violations) = 0, violations |-> violations]

NoResult == [status |-> "none"]
Raised(msg) == [status |-> "raised", error |-> msg]

\* Street centre lines in decimetres for the graph builder: a street, one that
\* starts 1 dm from its end, one that starts 3 dm from its end, one that starts
\* at its end and has an interior vertex, and one that ends at that vertex.
BuilderLines ==
    << <<0, 100>>, <<101, 200>>, <<103, 300>>, <<100, 150, 250>>, <<400, 150>> >>

\* The feature collections of up to MaxBuilderFeatures of these streets, each
\* with its own oneway property.
BuilderInputs ==
    UNION {{[i \in 1..Cardinality(S) |->
                [coords |-> BuilderLines[SortedSeq(S)[i]], oneway |-> fl[i]]] :
              fl \in [1..Cardinality(S) -> BOOLEAN]} :
           S \in {T \in SUBSET (1..Len(BuilderLines)) :
                      Cardinality(T) <= MaxBuilderFeatures}}

\* GraphBuilder.build_street_graph for features given in decimetres.
DecimetreGraph(streets) == GraphBuilder_build(streets, 100)

\* Whether two decimetre points are closer than mm millimetres.
NearDm(p, q, mm) == Abs(p - q) * 100 < mm

RouteVarsInit ==
    /\ features \in FeatureInputs
    /\ G = EmptyGraph /\ sccs = <<>> /\ scc_i = 0
    /\ scc_circuits = <<>> /\ scc_stats = <<>> /\ ordered_indices = <<>>
    /\ seq_idx = 0 /\ stitched = <<>> /\ result = NoResult
    /\ rpc = "start"

RouteIdle ==
    /\ features = <<>>
    /\ G = EmptyGraph /\ sccs = <<>> /\ scc_i = 0
    /\ scc_circuits = <<>> /\ scc_stats = <<>> /\ ordered_indices = <<>>
    /\ seq_idx = 0 /\ stitched = <<>> /\ result = NoResult
    /\ rpc = "idle"

\* The directed edges between three street corners, with their lengths.
EulerEdgeKinds ==
    << <<0, 25>>, <<25, 60>>, <<60, 0>>, <<25, 0>>, <<0, 60>>, <<60, 25>> >>

RECURSIVE AddCopies(_, _, _)
\* G.add_edge(u, v, length=...) called n times.
AddCopies(g, uv, n) ==
    IF n = 0 THEN g
    ELSE AddCopies(add_edge(g, uv[1], uv[2], Dist(uv[1], uv[2]), uv), uv, n - 1)

RECURSIVE EulerGraph(_, _)
\* The graph with mult[k] parallel edges of kind k, for the kinds up to k.
EulerGraph(mult, k) ==
    IF k = 0 THEN EmptyGraph
    ELSE AddCopies(EulerGraph(mult, k - 1), EulerEdgeKinds[k], mult[k])

\* The strongly connected graphs of up to MaxEulerEdges edges that
\* _make_eulerian_directed is tried on, as calculate_route hands it the
\* subgraph of a strongly connected component with edges.
EulerInputs ==
    {g \in {EulerGraph(mult, Len(EulerEdgeKinds)) :
              mult \in {f \in [1..Len(EulerEdgeKinds) -> 0..MaxEulerEdges] :
                          SumFn(f) <= MaxEulerEdges}} :
        number_of_edges(g) > 0 /\ is_strongly_connected(g)}

\* _make_eulerian_directed called on its own.
MakeEulerian ==
    /\ rpc = "euler"
    /\ \E r \in _make_eulerian_directed(G) :
         result' = [status |-> "eulerized", H |-> r.H, stats |-> r.stats]
    /\ rpc' = "eulerized"
    /\ UNCHANGED <<features, G, sccs, scc_i, scc_circuits, scc_stats, ordered_indices,
                   seq_idx, stitched>>
    /\ UNCHANGED <<bridgeVars, nonRouteVars>>

EulerNext == MakeEulerian

\* GraphBuilder.build_street_graph called on its own.
BuildStreetGraph ==
    /\ rpc = "build"
    /\ G' = DecimetreGraph(features)
    /\ rpc' = "built"
    /\ UNCHANGED <<features, sccs, scc_i, scc_circuits, scc_stats, ordered_indices,
                   seq_idx, stitched, result>>
    /\ UNCHANGED <<bridgeVars, nonRouteVars>>

BuilderNext == BuildStreetGraph

\* Steps 1 and 2: the graph is built and its strongly connected components are
\* listed, in the order the library yields them.
BuildGraph ==
    /\ rpc = "start"
    /\ LET g == build_street_graph(features)
           empty == g.nodes = {} \/ number_of_edges(g) = 0
       IN  /\ G' = g
           /\ \E order \in (IF empty THEN {<<>>}
                            ELSE Perms(strongly_connected_components(g))) :
                sccs' = order
           /\ rpc' = IF empty THEN "raised" ELSE "scc_loop"
           /\ result' = IF empty THEN Raised("No valid street network found") ELSE result
    /\ scc_i' = 1
    /\ UNCHANGED <<features, scc_circuits, scc_stats, ordered_indices, seq_idx, stitched>>
    /\ UNCHANGED <<bridgeVars, nonRouteVars>>

\* One round of the loop over the components (steps 3 to 6). The subgraph of a
\* strongly connected component is weakly connected, so connect_components is
\* not called here.
ProcessSCC ==
    /\ rpc = "scc_loop"
    /\ scc_i <= Len(sccs)
    /\ LET idx == scc_i - 1
           G_scc == subgraph(G, sccs[scc_i])
       IN  IF number_of_edges(G_scc) = 0
           THEN UNCHANGED <<scc_circuits, scc_stats>>
           ELSE \E r \in _make_eulerian_directed(G_scc) :
                  \E c \in Circuits(r.H) :
                    /\ scc_stats' = Append(scc_stats,
                           [scc_idx |-> idx, nodes |-> Cardinality(G_scc.nodes),
                            edges |-> number_of_edges(G_scc), euler |-> r.stats])
                    /\ scc_circuits' = Append(scc_circuits,
                           [idx |-> idx, G |-> r.H, circuit |-> c])
    /\ scc_i' = scc_i + 1
    /\ UNCHANGED <<features, G, sccs, ordered_indices, seq_idx, stitched, result, rpc>>
    /\ UNCHANGED <<bridgeVars, nonRouteVars>>

\* Step 7, after the loop: no circuit at all raises, otherwise the circuits are
\* ordered.
OrderSCCs ==
    /\ rpc = "scc_loop"
    /\ scc_i > Len(sccs)
    /\ IF scc_circuits = <<>>
       THEN /\ result' = Raised("No valid circuits found in any SCC")
            /\ rpc' = "raised"
            /\ UNCHANGED ordered_indices
       ELSE /\ ordered_indices' = _order_sccs_by_centroid(
                                     [i \in 1..Len(scc_circuits) |-> scc_circuits[i].G])
            /\ rpc' = "stitch"
            /\ UNCHANGED result
    /\ seq_idx' = 1
    /\ stitched' = <<>>
    /\ UNCHANGED <<features, G, sccs, scc_i, scc_circuits, scc_stats>>
    /\ UNCHANGED <<bridgeVars, nonRouteVars>>

\* for idx, G, circuit in scc_circuits: if idx == scc_idx: ... break
\* The positions of scc_circuits whose idx is scc_idx.
SccData(scc_idx) == {k \in 1..Len(scc_circuits) : scc_circuits[k].idx = scc_idx}

\* One round of the loop of _stitch_scc_circuits up to the call of
\* bridge_route_gaps: the circuit whose idx is order[seq_idx] is looked up and
\* handed to bridge_route_gaps; without one the loop continues.
StitchCall ==
    /\ rpc = "stitch"
    /\ seq_idx <= Len(ordered_indices)
    /\ bpc = "idle"
    /\ LET scc_idx == ordered_indices[seq_idx]
           found == SccData(scc_idx)
           first == CHOOSE k \in found : \A j \in found : k <= j
       IN  IF found = {}
           THEN /\ seq_idx' = seq_idx + 1
                /\ UNCHANGED <<bG, circuit, bpc, rpc>>
           ELSE /\ bG' = scc_circuits[first].G
                /\ circuit' = scc_circuits[first].circuit
                /\ bpc' = "call"
                /\ rpc' = "bridging"
                /\ UNCHANGED seq_idx
    /\ UNCHANGED <<features, G, sccs, scc_i, scc_circuits, scc_stats, ordered_indices,
                   stitched, result>>
    /\ UNCHANGED <<oracleKind, out, bidx, ri, fixed, polylinesOnly, oracleCalls>>
    /\ UNCHANGED nonRouteVars

\* The rest of the round: the coordinates bridge_route_gaps returned are joined
\* to the route, after a routed connector if they begin more than max_gap from
\* its end. A raising oracle is not caught here.
StitchAppend ==
    /\ rpc = "bridging"
    /\ bpc = "done"
    /\ LET circuit_coords == out
           last_point == stitched[Len(stitched)]
           first_point == circuit_coords[1]
           asks == /\ circuit_coords # <<>> /\ stitched # <<>>
                   /\ Dist(last_point, first_point) > max_gap_meters
       IN  \E reply \in (IF asks THEN OracleReplies(oracleKind, last_point, first_point)
                         ELSE {NoReply}) :
             LET connected == IF asks /\ Len(reply.coords) > 1
                              THEN stitched \o Tail(reply.coords)
                              ELSE stitched
             IN  /\ stitched' = IF circuit_coords = <<>> THEN stitched
                                ELSE IF stitched = <<>> THEN circuit_coords
                                ELSE IF reply.raised THEN stitched
                                ELSE IF connected[Len(connected)] = circuit_coords[1]
                                     THEN connected \o Tail(circuit_coords)
                                     ELSE connected \o circuit_coords
                 /\ rpc' = IF reply.raised THEN "raised" ELSE "stitch"
                 /\ result' = IF reply.raised THEN Raised("routing failed") ELSE result
                 /\ polylinesOnly' = (polylinesOnly /\ (asks => IsPolyline(reply)))
                 /\ oracleCalls' = oracleCalls + (IF asks THEN 1 ELSE 0)
    /\ seq_idx' = seq_idx + 1
    /\ bpc' = "idle"
    /\ UNCHANGED <<features, G, sccs, scc_i, scc_circuits, scc_stats, ordered_indices>>
    /\ UNCHANGED <<oracleKind, bG, circuit, out, bidx, ri, fixed>>
    /\ UNCHANGED nonRouteVars

\* _calculate_route_stats: the length of the route
RouteLength(coords) == _geodesic_length(coords)

\* Step 9 and the return: an empty route raises; otherwise the route is
\* validated and returned with its diagnostics.
ReturnRoute ==
    /\ rpc = "stitch"
    /\ seq_idx > Len(ordered_indices)
    /\ IF stitched = <<>>
       THEN /\ result' = Raised("Failed to assemble route")
            /\ rpc' = "raised"
       ELSE /\ result' =
                LET v == _validate_continuity(stitched)
                IN  [status |-> "returned",
                     geometry |-> stitched,
                     length_m |-> RouteLength(stitched),
                     valid |-> v.is_valid,
                     continuity_valid |-> v.is_valid,
                     continuity_violations |-> Len(v.violations),
                     scc_count |-> Len(sccs),
                     circuits_found |-> Len(scc_circuits)]
            /\ rpc' = "returned"
    /\ UNCHANGED <<features, G, sccs, scc_i, scc_circuits, scc_stats, ordered_indices,
                   seq_idx, stitched>>
    /\ UNCHANGED <<bridgeVars, nonRouteVars>>

RouteNext ==
    \/ BuildGraph \/ ProcessSCC \/ OrderSCCs \/ StitchCall \/ StitchAppend \/ ReturnRoute
    \/ BridgeEnter \/ BridgeWalk \/ RepairStep \/ BridgeReturn

\* The circuits bridge_route_gaps is given when it is called on its own.
BridgeGraphs ==
    {build_street_graph(f) :
        f \in {h \in FeatureInputs : Len(h) <= MaxBridgeFeatures}}
BridgeCircuits(g) == SeqsUpTo(g.nodes \X g.nodes, MaxCircuit)

BridgeVarsInit ==
    /\ oracleKind = "any"
    /\ bG \in BridgeGraphs
    /\ circuit \in BridgeCircuits(bG)
    /\ out = <<>> /\ bidx = 0 /\ ri = 0 /\ fixed = 0
    /\ polylinesOnly = TRUE /\ oracleCalls = 0
    /\ bpc = "call"

(***************************************************************************)
(* RouteConnector.connect_components (route_connector.py)                  *)
(***************************************************************************)
max_iterations == 10        \* connect_components: hard bound on the loop
max_centroid_dist_m == 5000 \* _find_closest_nodes: components further apart are skipped
direct_gap_m == 50          \* coverage mode: closer node pairs are joined directly
max_candidates == 5         \* node pairs tried per pair of components

\* What get_route(a, b) may come back with for two points 50 m or more apart,
\* as (coords, distance):
\*   "straight": the fallback, the two points and their haversine distance;
\*   "dense":    a routed polyline from a to b;
\*   "offset":   a routed polyline that starts and ends one metre inside;
\*   "long":     a routed polyline twice as long as the straight line;
\*   "point":    a geometry that decodes to one point;
\*   "empty":    a geometry that decodes to no point.
\* The first four honour the oracle's contract, the last two do not.
ContractKinds == {"straight", "dense", "offset", "long"}
ConnectorKinds == ContractKinds \cup {"point", "empty"}

Toward(a, b) == IF a < b THEN a + 1 ELSE a - 1

get_route(kind, a, b) ==
    CASE kind = "straight" -> [coords |-> <<a, b>>, distance |-> Dist(a, b)]
      [] kind = "dense" -> [coords |-> DensePath(a, b), distance |-> Dist(a, b)]
      [] kind = "offset" -> [coords |-> <<Toward(a, b), Toward(b, a)>>,
                             distance |-> Dist(a, b)]
      [] kind = "long" -> [coords |-> DensePath(a, b), distance |-> 2 * Dist(a, b)]
      [] kind = "point" -> [coords |-> <<a>>, distance |-> 0]
      [] OTHER -> [coords |-> <<>>, distance |-> 0]

\* centroid_dist > 5000 on the centroids sum / count of the two components.
TooFarApart(comp1, comp2) ==
    LET c1 == Centroid(comp1)
        c2 == Centroid(comp2)
    IN  Abs(c1[1] * c2[2] - c2[1] * c1[2]) > max_centroid_dist_m * c1[2] * c2[2]

RECURSIVE SortByDist(_)
\* candidates.sort(key=lambda x: x[2])
SortByDist(P) ==
    IF P = {} THEN <<>>
    ELSE LET x == CHOOSE p \in P :
                      \A q \in P : Dist(p[1], p[2]) <= Dist(q[1], q[2])
         IN  <<x>> \o SortByDist(P \ {x})

NoConnection == [route |-> <<>>, distance |-> 0, source |-> 0, target |-> 0]

RECURSIVE ScanCandidates(_, _, _)
\* Stage 3 of _find_closest_nodes, the loop over the candidates: a pair under
\* 50 m is joined directly; otherwise get_route is asked and its reply is kept
\* when it has coordinates and is shorter than the best so far, and the scan
\* stops at a reply under 1.5 times the straight distance. (The U-turn branch
\* needs neighbours of the pair under 20 m apart while the nearest pair of
\* the two components is 50 m or more apart, and get_route does not raise.)
ScanCandidates(cands, kind, best) ==
    IF cands = <<>> THEN best
    ELSE LET node1 == cands[1][1]
             node2 == cands[1][2]
             straight_dist == Dist(node1, node2)
             r == get_route(kind, node1, node2)
             found == [route |-> r.coords, distance |-> r.distance,
                       source |-> node1, target |-> node2]
         IN  IF straight_dist < direct_gap_m
             THEN [route |-> <<node1, node2>>, distance |-> straight_dist,
                   source |-> node1, target |-> node2]
             ELSE IF r.coords # <<>>
                     /\ (best.route = <<>> \/ r.distance < best.distance)
             THEN IF r.distance * 2 < straight_dist * 3 THEN found
                  ELSE ScanCandidates(Tail(cands), kind, found)
             ELSE ScanCandidates(Tail(cands), kind, best)

\* RouteConnector._find_closest_nodes: NoConnection stands for None.
_find_closest_nodes(comp1, comp2, kind) ==
    IF TooFarApart(comp1, comp2) THEN NoConnection
    ELSE LET all == SortByDist(comp1.nodes \X comp2.nodes)
             candidates == SubSeq(all, 1, IF Len(all) < max_candidates
                                          THEN Len(all) ELSE max_candidates)
         IN  ScanCandidates(candidates, kind, NoConnection)

\* RouteConnector._find_best_connection: the connections of least distance
\* over the pairs of components; the first of them in the order of the pairs
\* is taken, and that order is the library's.
_find_best_connection(components, kind) ==
    LET found == {c \in {_find_closest_nodes(p[1], p[2], kind) :
                           p \in {q \in components \X components : q[1] # q[2]}} :
                     c.route # <<>>}
    IN  {c \in found : \A d \in found : c.distance <= d.distance}

\* Only the edge from a to b, without its reverse.
AddBoth_OneWay(g, a, b) == add_edge(g, a, b, Dist(a, b), <<a, b>>)

\* G.add_edge(a, b) and G.add_edge(b, a) with the two-point geometries.
AddBoth(g, a, b) ==
    add_edge(add_edge(g, a, b, Dist(a, b), <<a, b>>), b, a, Dist(a, b), <<b, a>>)

RECURSIVE AddRouteEdges(_, _)
\* the loop "Add route edges" of _add_route_to_graph
AddRouteEdges(g, coords) ==
    IF Len(coords) < 2 THEN g
    ELSE AddRouteEdges(AddBoth(g, coords[1], coords[2]), Tail(coords))

\* _add_route_to_graph without the edges that tie the route's first and last
\* points to the source and target nodes.
_add_route_to_graph_RouteOnly(g, coords, source_node, target_node) ==
    IF Len(coords) < 2 THEN g ELSE AddRouteEdges(g, coords)

\* RouteConnector._add_route_to_graph
_add_route_to_graph(g, coords, source_node, target_node) ==
    IF Len(coords) < 2 THEN g
    ELSE LET first_coord == coords[1]
             last_coord == coords[Len(coords)]
             g1 == IF source_node # first_coord
                   THEN AddBoth(g, source_node, first_coord) ELSE g
             g2 == AddRouteEdges(g1, coords)
         IN  IF target_node # last_coord
             THEN AddBoth(g2, last_coord, target_node) ELSE g2

\* [G.subgraph(c).copy() for c in components]
ComponentSubgraphs(g) == {subgraph(g, c) : c \in weakly_connected_components(g)}

\* One-way streets in metres that connect_components is tried on: gaps of 60,
\* 20 and 100 m between neighbours, and one street more than 5 km away.
ConnectorLines ==
    << <<0, 10>>, <<70, 80>>, <<100, 110>>, <<210, 220>>, <<6000, 6010>> >>

ConnectorInputs ==
    {build_street_graph([i \in 1..Cardinality(S) |->
            [coords |-> ConnectorLines[SortedSeq(S)[i]], oneway |-> TRUE]]) :
        S \in {T \in SUBSET (1..Len(ConnectorLines)) :
                   T # {} /\ Cardinality(T) <= MaxComponents}}

ConnIdle ==
    /\ conn_oracle = "contract" /\ conn_G = EmptyGraph /\ G_connected = EmptyGraph
    /\ iteration = 0 /\ previous_component_count = 0 /\ conn_log = <<>>
    /\ conn_pc = "idle"

ConnVarsInit ==
    /\ conn_oracle \in {"contract", "any"}
    /\ conn_G \in ConnectorInputs
    /\ G_connected = EmptyGraph
    /\ iteration = 0 /\ previous_component_count = 0 /\ conn_log = <<>>
    /\ conn_pc = "call"

\* connect_components up to its loop: a weakly connected graph is returned as
\* it is.
ConnectCall ==
    /\ conn_pc = "call"
    /\ G_connected' = conn_G
    /\ iteration' = 0
    /\ IF is_weakly_connected(conn_G)
       THEN /\ conn_pc' = "returned"
            /\ UNCHANGED previous_component_count
       ELSE /\ conn_pc' = "loop"
            /\ previous_component_count' =
                   Cardinality(weakly_connected_components(conn_G))
    /\ UNCHANGED <<conn_oracle, conn_G, conn_log>>
    /\ UNCHANGED nonConnVars

\* One round of the while loop.
ConnectIteration ==
    /\ conn_pc = "loop"
    /\ Cardinality(weakly_connected_components(G_connected)) > 1
    /\ iteration < max_iterations
    /\ iteration' = iteration + 1
    /\ \E kind \in (IF conn_oracle = "contract" THEN ContractKinds ELSE ConnectorKinds) :
         LET best == _find_best_connection(ComponentSubgraphs(G_connected), kind)
         IN  IF best = {}
             THEN /\ conn_pc' = "returned"
                  /\ UNCHANGED <<G_connected, previous_component_count, conn_log>>
             ELSE \E c \in best :
                    LET g == _add_route_to_graph(G_connected, c.route, c.source, c.target)
                        new_component_count ==
                            Cardinality(weakly_connected_components(g))
                        stalled == new_component_count >= previous_component_count
                    IN  /\ G_connected' = g
                        /\ conn_log' = Append(conn_log,
                               [now |-> new_component_count,
                                was |-> previous_component_count])
                        /\ IF stalled /\ iteration' > 3
                           THEN /\ conn_pc' = "returned"
                                /\ UNCHANGED previous_component_count
                           ELSE /\ conn_pc' = "loop"
                                /\ previous_component_count' = new_component_count
    /\ UNCHANGED <<conn_oracle, conn_G>>
    /\ UNCHANGED nonConnVars

\* The loop condition fails: the graph is returned.
ConnectReturn ==
    /\ conn_pc = "loop"
    /\ ~(/\ Cardinality(weakly_connected_components(G_connected)) > 1
         /\ iteration < max_iterations)
    /\ conn_pc' = "returned"
    /\ UNCHANGED <<conn_oracle, conn_G, G_connected, iteration,
                   previous_component_count, conn_log>>
    /\ UNCHANGED nonConnVars

ConnNext == ConnectCall \/ ConnectIteration \/ ConnectReturn

(***************************************************************************)
(* ORSClient.get_route and _make_request_with_retry (ors_client.py)        *)
(***************************************************************************)
ors_max_retries == 3          \* settings.ors_max_retries
ors_retry_delay_ms == 1000    \* settings.ors_retry_delay, 1.0 s, in milliseconds
JitterMs == {0, 99}           \* random.random() * 0.1 s, in milliseconds
OrsPoints == {0, 60}          \* the points routes are asked between

\* The Retry-After header of a 429 response: absent, a number of seconds, or
\* an HTTP date, which float() does not parse.
NoHeader == [present |-> FALSE, numeric |-> FALSE, seconds |-> 0]
RetryAfterHeaders ==
    {NoHeader, [present |-> TRUE, numeric |-> TRUE, seconds |-> 5],
     [present |-> TRUE, numeric |-> FALSE, seconds |-> 0]}

\* What client.request may come to: a response by status class, a 200 by what
\* its body holds, or an exception (timeout, network error, or another
\* transport error such as a protocol error).
Responses ==
    {[kind |-> k, hdr |-> NoHeader, body |-> "none"] :
        k \in {"4xx", "5xx", "timeout", "network", "protocol"}}
    \cup {[kind |-> "429", hdr |-> h, body |-> "none"] : h \in RetryAfterHeaders}
    \cup {[kind |-> "2xx", hdr |-> NoHeader, body |-> b] :
            b \in {"route", "no_routes", "invalid_json", "no_geometry", "empty_geometry"}}

Event(e, resp, ms, att) ==
    [e |-> e, kind |-> resp.kind, hdr |-> resp.hdr, body |-> resp.body, ms |-> ms,
     attempt |-> att]

\* The wait after a 429 taken from the backoff alone, whatever the header says.
wait_time_429_BackoffOnly(hdr, att) == ors_retry_delay_ms * (2 ^ att)

\* The wait after a 429 with an absent or numeric header:
\* float(response.headers.get('Retry-After', str(retry_delay * 2 ** attempt)))
wait_time_429(hdr, att) ==
    IF hdr.present THEN hdr.seconds * 1000 ELSE ors_retry_delay_ms * (2 ^ att)

\* wait_time = self.retry_delay * (2 ** attempt) + (random.random() * 0.1)
Backoff(att, jitter) == ors_retry_delay_ms * (2 ^ att) + jitter

\* A loop whose attempt does not advance.
NextAttempt_Stuck(att) == att

\* for attempt in range(self.max_retries): the next value of attempt
NextAttempt(att) == att + 1

\* The failure handed on to the caller instead of the straight line.
FallbackResult_Raises(a, b) ==
    [status |-> "raised", coords |-> <<>>, distance |-> 0, kind |-> "fallback"]

\* return [list(start), list(end)], self._haversine(start, end)
FallbackResult(a, b) ==
    [status |-> "returned", coords |-> <<a, b>>, distance |-> Dist(a, b),
     kind |-> "fallback"]

\* Bodies that make the try block of get_route raise: response.json() fails, or
\* there is no 'routes' entry.
BodyRaises(body) == body \in {"invalid_json", "no_routes"}

\* What get_route returns for a body it accepts: the decoded polyline with the
\* distance of the summary; the request's own coordinates when the route has
\* no geometry string (and distance 0 without a summary); the empty list for an
\* empty geometry string.
BodyResult(body, a, b) ==
    IF body = "no_geometry"
    THEN [status |-> "returned", coords |-> <<a, b>>, distance |-> 0, kind |-> "waypoints"]
    ELSE IF body = "empty_geometry"
    THEN [status |-> "returned", coords |-> <<>>, distance |-> Dist(a, b) + 15,
          kind |-> "ors"]
    ELSE [status |-> "returned", coords |-> DensePath(a, b), distance |-> Dist(a, b) + 15,
          kind |-> "ors"]

NoOrsResult == [status |-> "none", coords |-> <<>>, distance |-> 0, kind |-> "none"]
Cached(key) == {c \in ors_cache : c.key = key}

OrsCallIdle ==
    /\ ors_args = <<0, 0>> /\ attempt = 0 /\ sent = 0 /\ wait_ms = 0 /\ trace = <<>>
    /\ req_outcome = "none" /\ ores = NoOrsResult /\ ncalls = 0 /\ opc = "idle"

OrsIdle ==
    /\ ors_enabled = TRUE /\ has_cache = FALSE /\ ors_cache = {}
    /\ last_success = "unset" /\ OrsCallIdle

OrsVarsInit ==
    /\ ors_enabled \in BOOLEAN /\ has_cache \in BOOLEAN /\ ors_cache = {}
    /\ last_success = "unset" /\ OrsCallIdle

\* get_route is called: a disabled client returns the straight line, a cache
\* hit returns the cached route, otherwise the request loop begins.
GetRouteCall ==
    /\ opc = "idle"
    /\ ncalls < MaxCalls
    /\ \E start \in OrsPoints :
       \E end \in OrsPoints \ {start} :
         \E answers \in (IF has_cache /\ Cached(<<start, end>>) # {} THEN BOOLEAN
                         ELSE {FALSE}) :
           /\ ors_args' = <<start, end>>
           /\ IF ~ors_enabled
              THEN /\ ores' = FallbackResult(start, end)
                   /\ opc' = "returned"
              ELSE IF answers
              THEN /\ ores' = LET c == CHOOSE x \in Cached(<<start, end>>) : TRUE
                              IN  [status |-> "returned", coords |-> c.coords,
                                   distance |-> c.distance, kind |-> "cache"]
                   /\ opc' = "returned"
              ELSE /\ ores' = NoOrsResult
                   /\ opc' = "request"
    /\ ncalls' = ncalls + 1
    /\ attempt' = 0 /\ sent' = 0 /\ wait_ms' = 0 /\ trace' = <<>> /\ req_outcome' = "none"
    /\ UNCHANGED <<ors_enabled, has_cache, ors_cache, last_success>>
    /\ UNCHANGED nonOrsVars

\* One round of the loop of _make_request_with_retry: a request is sent and
\* what comes back is handled. A 429 sleeps and goes on to the next attempt; a
\* status below 500 returns the response or raises for its status; a 5xx, a
\* timeout or a network error backs off unless this was the last attempt; any
\* other exception leaves the loop. Whatever is raised is caught by get_route,
\* which returns the straight line; a response is read by get_route at once.
SendRequest ==
    /\ opc = "request"
    /\ \E resp \in Responses, jitter \in JitterMs, stored \in BOOLEAN :
         LET start == ors_args[1]
             end == ors_args[2]
             retryable == resp.kind \in {"5xx", "timeout", "network"}
             sleeps == \/ resp.kind = "429" /\ (resp.hdr.present => resp.hdr.numeric)
                       \/ retryable /\ attempt < ors_max_retries - 1
             succeeds == resp.kind = "2xx" /\ ~BodyRaises(resp.body)
             ms == IF resp.kind = "429" THEN wait_time_429(resp.hdr, attempt)
                   ELSE Backoff(attempt, jitter)
         IN  /\ sent' = sent + 1
             /\ trace' = trace \o <<Event("send", resp, 0, attempt),
                                    Event("recv", resp, 0, attempt)>>
                               \o (IF sleeps THEN <<Event("sleep", resp, ms, attempt)>>
                                   ELSE <<>>)
             /\ IF sleeps
                THEN /\ opc' = "sleeping"
                     /\ wait_ms' = ms
                     /\ UNCHANGED <<req_outcome, ores, last_success, ors_cache>>
                ELSE IF succeeds
                THEN /\ req_outcome' = "response"
                     /\ ores' = BodyResult(resp.body, start, end)
                     /\ last_success' = "true"
                     /\ ors_cache' =
                          IF has_cache /\ stored
                          THEN {c \in ors_cache : c.key # ors_args}
                               \cup {[key |-> ors_args,
                                      coords |-> BodyResult(resp.body, start, end).coords,
                                      distance |-> BodyResult(resp.body, start, end).distance]}
                          ELSE ors_cache
                     /\ opc' = "returned"
                     /\ UNCHANGED wait_ms
                ELSE /\ req_outcome' = IF resp.kind = "2xx" THEN "response" ELSE "error"
                     /\ ores' = FallbackResult(start, end)
                     /\ last_success' = "false"
                     /\ opc' = "returned"
                     /\ UNCHANGED <<wait_ms, ors_cache>>
    /\ UNCHANGED <<ors_enabled, has_cache, ors_args, attempt, ncalls>>
    /\ UNCHANGED nonOrsVars

\* The sleep is over and the loop goes to its next attempt; after the last one
\* it raises "Failed after max_retries attempts", which get_route catches.
RetryWake ==
    /\ opc = "sleeping"
    /\ attempt' = NextAttempt(attempt)
    /\ IF NextAttempt(attempt) < ors_max_retries
       THEN /\ opc' = "request"
            /\ UNCHANGED <<req_outcome, ores, last_success>>
       ELSE /\ req_outcome' = "error"
            /\ ores' = FallbackResult(ors_args[1], ors_args[2])
            /\ last_success' = "false"
            /\ opc' = "returned"
    /\ wait_ms' = 0
    /\ UNCHANGED <<ors_enabled, has_cache, ors_cache, ors_args, sent, trace, ncalls>>
    /\ UNCHANGED nonOrsVars

\* The caller has the result and the locals of the call are gone; the client is
\* ready for the next call.
ReturnToCaller ==
    /\ opc = "returned"
    /\ opc' = "idle"
    /\ ors_args' = <<0, 0>> /\ attempt' = 0 /\ sent' = 0 /\ wait_ms' = 0 /\ trace' = <<>>
    /\ req_outcome' = "none" /\ ores' = NoOrsResult
    /\ UNCHANGED <<ors_enabled, has_cache, ors_cache, last_success, ncalls>>
    /\ UNCHANGED nonOrsVars

OrsNext == GetRouteCall \/ SendRequest \/ RetryWake \/ ReturnToCaller

(***************************************************************************)
(* Database.get_pending_job polled by several workers (database.py,        *)
(* job_processor.py).  Every worker is a process of its own with its own   *)
(* connection; a transaction holds its row locks until it commits or rolls *)
(* back (get_connection, lines 52-66).                                     *)
(***************************************************************************)
Workers == 1..MaxWorkers
NoWorker == 0
Rows == 1..MaxRows      \* ids in the order of created_at

\* The smallest id of a set of rows: ORDER BY created_at ASC LIMIT 1.
OldestOf(S) == CHOOSE j \in S : \A k \in S : j <= k

\* The rows the statement's subquery may lock if it took no notice of locks.
SkipLocked_IgnoreLocks(w) ==
    {j \in Rows : coverage_routes[j] = "pending"}

\* WHERE params->>'status' = 'pending' ... FOR UPDATE SKIP LOCKED: the pending
\* rows that no other open transaction has locked.
SkipLocked(w) ==
    {j \in Rows : coverage_routes[j] = "pending" /\ row_lock[j] \in {NoWorker, w}}

ClaimIdle ==
    /\ coverage_routes = [j \in Rows |-> "none"]
    /\ row_lock = [j \in Rows |-> NoWorker]
    /\ worker_pc = [w \in Workers |-> "off"]
    /\ worker_job = [w \in Workers |-> NoJob]
    /\ claim_log = <<>>

ClaimVarsInit ==
    /\ coverage_routes = [j \in Rows |-> "none"]
    /\ row_lock = [j \in Rows |-> NoWorker]
    /\ worker_pc = [w \in Workers |-> "poll"]
    /\ worker_job = [w \in Workers |-> NoJob]
    /\ claim_log = <<>>

\* The external API inserts a row with status pending.
InsertRow ==
    /\ \E j \in Rows :
         /\ coverage_routes[j] = "none"
         /\ \A k \in Rows : k < j => coverage_routes[k] # "none"
         /\ coverage_routes' = [coverage_routes EXCEPT ![j] = "pending"]
    /\ UNCHANGED <<row_lock, worker_pc, worker_job, claim_log>>
    /\ UNCHANGED nonClaimVars

\* get_pending_job, lines 70-92: the UPDATE ... RETURNING statement runs in the
\* worker's transaction.  It locks and updates the oldest pending row that is
\* not locked; with no such row fetchone() is None and start() sleeps; when the
\* statement raises, start() logs and sleeps.
get_pending_job_execute(w) ==
    /\ worker_pc[w] = "poll"
    /\ \E o \in DbOutcomes :
         IF o = "ok" /\ SkipLocked(w) # {}
         THEN /\ row_lock' = [row_lock EXCEPT ![OldestOf(SkipLocked(w))] = w]
              /\ worker_job' = [worker_job EXCEPT ![w] = OldestOf(SkipLocked(w))]
              /\ worker_pc' = [worker_pc EXCEPT ![w] = "statement"]
         ELSE /\ worker_pc' = [worker_pc EXCEPT ![w] = "sleeping"]
              /\ UNCHANGED <<row_lock, worker_job>>
    /\ UNCHANGED <<coverage_routes, claim_log>>
    /\ UNCHANGED nonClaimVars

\* get_connection, lines 57-66: conn.commit() makes the update visible and
\* releases the lock, and get_pending_job returns the row; when the commit
\* raises, the transaction is rolled back and the exception reaches start().
get_pending_job_commit(w) ==
    /\ worker_pc[w] = "statement"
    /\ \E o \in DbOutcomes :
         IF o = "ok"
         THEN /\ coverage_routes' = [coverage_routes EXCEPT ![worker_job[w]] = "processing"]
              /\ claim_log' = Append(claim_log, worker_job[w])
              /\ worker_pc' = [worker_pc EXCEPT ![w] = "process"]
              /\ UNCHANGED worker_job
         ELSE /\ worker_pc' = [worker_pc EXCEPT ![w] = "sleeping"]
              /\ worker_job' = [worker_job EXCEPT ![w] = NoJob]
              /\ UNCHANGED <<coverage_routes, claim_log>>
    /\ row_lock' = [j \in Rows |-> IF row_lock[j] = w THEN NoWorker ELSE row_lock[j]]
    /\ UNCHANGED nonClaimVars

\* start(), line 43: await self.process_job(job).  The job ends with a terminal
\* status, or keeps status processing when its last update raises.
WorkerProcessJob(w) ==
    /\ worker_pc[w] = "process"
    /\ \E st \in Terminal \cup {"processing"} :
         coverage_routes' = [coverage_routes EXCEPT ![worker_job[w]] = st]
    /\ worker_job' = [worker_job EXCEPT ![w] = NoJob]
    /\ worker_pc' = [worker_pc EXCEPT ![w] = "poll"]
    /\ UNCHANGED <<row_lock, claim_log>>
    /\ UNCHANGED nonClaimVars

\* start(), lines 46 and 50: asyncio.sleep returns and the loop goes round.
WorkerWake(w) ==
    /\ worker_pc[w] = "sleeping"
    /\ worker_pc' = [worker_pc EXCEPT ![w] = "poll"]
    /\ UNCHANGED <<coverage_routes, row_lock, worker_job, claim_log>>
    /\ UNCHANGED nonClaimVars

ClaimNext ==
    \/ InsertRow
    \/ \E w \in Workers : get_pending_job_execute(w)
    \/ \E w \in Workers : get_pending_job_commit(w)
    \/ \E w \in Workers : WorkerProcessJob(w)
    \/ \E w \in Workers : WorkerWake(w)

(***************************************************************************)
(* Specifications                                                          *)
(***************************************************************************)
ClaimInit ==
    /\ ClaimVarsInit
    /\ ConnIdle
    /\ JobVarsInit /\ ChunkIdle /\ BridgeIdle /\ oracleKind = "straight" /\ RouteIdle
    /\ OrsIdle
ClaimSpec == ClaimInit /\ [][ClaimNext]_vars

JobInit ==
    /\ ConnIdle
    /\ ClaimIdle
    /\ JobVarsInit /\ ChunkIdle /\ BridgeIdle /\ oracleKind = "straight" /\ RouteIdle
    /\ OrsIdle
JobSpec == JobInit /\ [][JobNext]_vars

\* The steps of process_job in task t.
ProcessJobStep(t) ==
    \/ PJ_Start(t) \/ PJ_GetArea(t) \/ PJ_Update20(t) \/ PJ_FetchStreets(t)
    \/ PJ_Update50(t) \/ PJ_CalculateRoute(t) \/ PJ_Update80(t) \/ PJ_Split(t)
    \/ PJ_Update90(t) \/ PJ_Save(t) \/ PJ_Complete(t) \/ PJ_Failed(t)

\* The event loop runs every task that is ready, and every await of process_job
\* and of the poll loop returns or raises: no task waits for ever.
JobFairSpec ==
    /\ JobSpec
    /\ WF_vars(Poll \/ Wake)
    /\ \A t \in Tasks : WF_vars(ProcessJobStep(t))

ChunkInit ==
    /\ ConnIdle
    /\ ClaimIdle
    /\ ChunkVarsInit /\ JobVarsInit /\ BridgeIdle /\ oracleKind = "straight" /\ RouteIdle
    /\ OrsIdle
ChunkSpec == ChunkInit /\ [][ChunkNext]_vars

BridgeInit ==
    /\ ConnIdle
    /\ ClaimIdle
    /\ BridgeVarsInit /\ JobVarsInit /\ ChunkIdle /\ RouteIdle
    /\ OrsIdle
BridgeSpec == BridgeInit /\ [][BridgeNext]_vars

\* bridge_route_gaps is a coroutine the event loop keeps resuming.
BridgeFairSpec == BridgeSpec /\ WF_vars(BridgeNext)

RouteInit ==
    /\ ConnIdle
    /\ ClaimIdle
    /\ RouteVarsInit /\ BridgeIdle /\ oracleKind \in {"straight", "dense"}
    /\ JobVarsInit /\ ChunkIdle
    /\ OrsIdle
RouteSpec == RouteInit /\ [][RouteNext]_vars

BuilderInit ==
    /\ ConnIdle
    /\ ClaimIdle
    /\ features \in BuilderInputs
    /\ G = EmptyGraph /\ sccs = <<>> /\ scc_i = 0
    /\ scc_circuits = <<>> /\ scc_stats = <<>> /\ ordered_indices = <<>>
    /\ seq_idx = 0 /\ stitched = <<>> /\ result = NoResult
    /\ rpc = "build"
    /\ BridgeIdle /\ oracleKind = "straight"
    /\ JobVarsInit /\ ChunkIdle /\ OrsIdle
BuilderSpec == BuilderInit /\ [][BuilderNext]_vars

ConnInit ==
    /\ ConnVarsInit
    /\ ClaimIdle
    /\ JobVarsInit /\ ChunkIdle /\ BridgeIdle /\ oracleKind = "straight"
    /\ RouteIdle /\ OrsIdle
ConnSpec == ConnInit /\ [][ConnNext]_vars

EulerInit ==
    /\ ConnIdle
    /\ ClaimIdle
    /\ features = <<>>
    /\ G \in EulerInputs /\ sccs = <<>> /\ scc_i = 0
    /\ scc_circuits = <<>> /\ scc_stats = <<>> /\ ordered_indices = <<>>
    /\ seq_idx = 0 /\ stitched = <<>> /\ result = NoResult
    /\ rpc = "euler"
    /\ BridgeIdle /\ oracleKind = "straight"
    /\ JobVarsInit /\ ChunkIdle /\ OrsIdle
EulerSpec == EulerInit /\ [][EulerNext]_vars

OrsInit ==
    /\ ConnIdle
    /\ ClaimIdle
    /\ OrsVarsInit /\ JobVarsInit /\ ChunkIdle /\ BridgeIdle /\ oracleKind = "straight"
    /\ RouteIdle
OrsSpec == OrsInit /\ [][OrsNext]_vars

(***************************************************************************)
(* Claims about job processing                                             *)
(***************************************************************************)
IsNonDecreasing(s) == \A i \in 1..(Len(s) - 1) : s[i].progress <= s[i + 1].progress

\* C7: a job whose fetch, route calculation, chunking and save all succeeded
\* (and whose status updates all went through) ends completed when the route
\* is valid and completed_with_warnings when it is not, never failed.
C7_SucceededJobCompletes ==
    \A j \in Jobs :
        (jobRes[j].ended /\ jobRes[j].stepsOk /\ ~jobRes[j].dbError)
            => jobStatus[j] = (IF jobRes[j].valid THEN "completed"
                               ELSE "completed_with_warnings")

\* C8: within one job, the progress percentages written by update_job_status
\* never decrease, whatever the outcome of the job.
C8_ProgressMonotone ==
    \A j \in JobIds : IsNonDecreasing(progressLog[j])

\* C8 as amended: the progress written while the status is processing never
\* decreases; the only lower value is the failure handler's last write, which
\* sets status failed and progress 0.
C8_ProgressMonotoneUntilFailed ==
    \A j \in JobIds : \A i \in 1..(Len(progressLog[j]) - 1) :
        progressLog[j][i + 1].progress < progressLog[j][i].progress
            => /\ progressLog[j][i + 1].status = "failed"
               /\ progressLog[j][i + 1].progress = 0
               /\ i + 1 = Len(progressLog[j])

\* A job that got to 50 % and was then marked failed.
C8_Witness ==
    \E j \in JobIds :
        /\ Len(progressLog[j]) >= 4
        /\ progressLog[j][3].progress = 50
        /\ progressLog[j][Len(progressLog[j])].status = "failed"

\* C9: when a job ends in status failed, save_route_result has persisted
\* nothing for it.
C9_FailedJobSavedNothing ==
    \A j \in Jobs : jobStatus[j] = "failed" => ~saved[j]

\* C10: no two executions of process_job are in progress together in one
\* worker process, also when the manual trigger is called while the poll loop runs.
C10_OneJobAtATime ==
    Cardinality({t \in Tasks : InProcessJob(t)}) <= 1

(***************************************************************************)
(* Claims about split_into_chunks                                          *)
(***************************************************************************)
RECURSIVE ConcatChunks(_)
\* The chunks' geometries in chunk_id order, the first point of every chunk
\* after the first (the point it shares with the chunk before it) counted once.
ConcatChunks(cs) ==
    IF cs = <<>> THEN <<>>
    ELSE IF Len(cs) = 1 THEN cs[1].geometry
    ELSE ConcatChunks(SubSeq(cs, 1, Len(cs) - 1)) \o Tail(cs[Len(cs)].geometry)

\* C5: for a route of at least 2 points, the chunks' geometries concatenated in
\* chunk_id order, shared points counted once, are exactly the route's coordinates.
C5_ChunksConcatToRoute ==
    (cpc = "done" /\ Len(route_coords) >= 2)
        => ConcatChunks(chunks) = route_coords

\* C6: every chunk has time_s at most 1.1 times chunk_duration_s.
C6_ChunkTimeBounded ==
    \A k \in 1..Len(chunks) :
        chunks[k].time_s * 10 <= 11 * chunk_duration_s * SpeedDms(profile)

(***************************************************************************)
(* Claims about calculate_route                                            *)
(***************************************************************************)
RECURSIVE IsSubsequence(_, _)
\* Whether the points of a occur in b in the same order, other points of b
\* between them allowed.
IsSubsequence(a, b) ==
    IF a = <<>> THEN TRUE
    ELSE IF b = <<>> THEN FALSE
    ELSE IF a[1] = b[1] THEN IsSubsequence(Tail(a), Tail(b))
    ELSE IsSubsequence(a, Tail(b))

\* The hops of a polyline that are longer than limit.
GapsAbove(coords, limit) ==
    {i \in 1..(Len(coords) - 1) : Dist(coords[i], coords[i + 1]) > limit}

\* C1: every edge of the street graph is traversed by the returned route: the
\* points of its geometry are passed in their order, whether the edge joins two
\* strongly connected components or is one of several parallel edges.
C1_EveryEdgeTraversed ==
    result.status = "returned" =>
        \A e \in G.edges : IsSubsequence(e.geometry, result.geometry)

\* C2: after _make_eulerian_directed on the subgraph of a strongly connected
\* component every node of the result has as many edges entering as leaving.
C2_EulerizedBalanced ==
    \A k \in 1..Len(scc_circuits) :
        \A n \in scc_circuits[k].G.nodes :
            in_degree(scc_circuits[k].G, n) = out_degree(scc_circuits[k].G, n)

\* A component with imbalanced nodes went through _make_eulerian_directed and
\* had edges duplicated.
C2_Witness ==
    \E k \in 1..Len(scc_stats) :
        /\ scc_stats[k].euler.imbalanced_nodes > 0
        /\ scc_stats[k].euler.edges_added > 0
        /\ Cardinality(scc_circuits[k].G.edges) > scc_stats[k].edges

\* C3: the result is valid exactly if no two consecutive points of the returned
\* geometry are more than max_gap (30 m) apart, and continuity_violations is
\* the number of such pairs.
C3_ValidIffNoGap ==
    result.status = "returned" =>
        /\ result.valid = (GapsAbove(result.geometry, 30) = {})
        /\ result.continuity_valid = result.valid
        /\ result.continuity_violations = Cardinality(GapsAbove(result.geometry, 30))

\* A route was returned as not valid, with a hop above 30 m and one between
\* 20 m and 30 m.
C3_Witness ==
    /\ result.status = "returned"
    /\ ~result.valid
    /\ result.continuity_violations >= 1
    /\ GapsAbove(result.geometry, 20) # GapsAbove(result.geometry, 30)

(***************************************************************************)
(* Claims about bridge_route_gaps                                          *)
(***************************************************************************)
\* C4: after the main walk and the repair pass the returned polyline has no
\* two consecutive points more than max_gap apart, provided every oracle
\* request was answered with a polyline and fewer than 200 fixes were made.
C4_NoGapAfterBridging ==
    (bpc = "done" /\ polylinesOnly /\ fixed < MAX_FIXES) =>
        GapsAbove(out, max_gap_meters) = {}

(***************************************************************************)
(* Claims about the ORS client                                             *)
(***************************************************************************)
Sends == SelectSeq(trace, LAMBDA ev : ev.e = "send")
Recvs == SelectSeq(trace, LAMBDA ev : ev.e = "recv")
\* The call asked the oracle and the last thing that came back was not a
\* response with a route in it.
OracleFailed ==
    /\ Recvs # <<>>
    /\ LET last == Recvs[Len(Recvs)]
       IN  ~(last.kind = "2xx" /\ last.body \in {"route", "no_geometry", "empty_geometry"})

\* C11: get_route never raises to its caller; when the oracle failed (timeouts,
\* network errors, 5xx, 429, 4xx, an unreadable body or one without routes,
\* retries used up) it returns the two points [start, end] with their
\* haversine distance.
C11_GetRouteFallsBack ==
    opc = "returned" =>
        /\ ores.status = "returned"
        /\ OracleFailed =>
             /\ ores.coords = <<ors_args[1], ors_args[2]>>
             /\ ores.distance = Dist(ors_args[1], ors_args[2])

\* The retries were used up on server errors and timeouts and the call
\* returned the straight line.
C11_Witness ==
    /\ opc = "returned"
    /\ sent = ors_max_retries
    /\ Recvs[Len(Recvs)].kind \in {"5xx", "timeout"}
    /\ ores.coords = <<ors_args[1], ors_args[2]>>

\* C12: one call of _make_request_with_retry sends at most ors_max_retries
\* requests, and when no request got a successful response it ended with an
\* error.
C12_AtMostMaxRetriesRequests ==
    /\ sent <= ors_max_retries
    /\ Len(Sends) <= ors_max_retries
    /\ (opc = "returned" /\ Sends # <<>>
        /\ \A i \in 1..Len(Recvs) : Recvs[i].kind # "2xx") => req_outcome = "error"

\* A call met a 429, a timeout and a server error, one per request, and ended
\* with an error after ors_max_retries requests.
C12_Witness ==
    /\ opc = "returned"
    /\ Len(Sends) = ors_max_retries
    /\ req_outcome = "error"
    /\ {Recvs[i].kind : i \in 1..Len(Recvs)} = {"429", "timeout", "5xx"}

\* C13: after a 429 with a Retry-After value no request is sent before the
\* declared time has been waited; without the header the wait is
\* retry_delay * 2^attempt. (A value float() cannot read ends the call.)
C13_RetryAfterRespected ==
    \A i \in 1..Len(trace) :
        (trace[i].e = "recv" /\ trace[i].kind = "429") =>
            IF trace[i].hdr.present /\ ~trace[i].hdr.numeric
            THEN \A j \in (i + 1)..Len(trace) : trace[j].e # "send"
            ELSE /\ i < Len(trace)
                 /\ trace[i + 1].e = "sleep"
                 /\ trace[i + 1].ms =
                        IF trace[i].hdr.present THEN trace[i].hdr.seconds * 1000
                        ELSE ors_retry_delay_ms * (2 ^ trace[i].attempt)

\* A 429 with Retry-After: 5 on the second attempt was followed by a sleep of
\* 5 s and then by the next request.
C13_Witness ==
    \E i \in 1..Len(trace) :
        /\ trace[i].e = "recv" /\ trace[i].kind = "429"
        /\ trace[i].hdr.present /\ trace[i].hdr.numeric /\ trace[i].attempt = 1
        /\ i + 2 <= Len(trace)
        /\ trace[i + 1].e = "sleep" /\ trace[i + 1].ms = 5000
        /\ trace[i + 2].e = "send"

\* C14: after every call of get_route, last_success is true exactly if the
\* polyline this call returned is an oracle route (from a response or from the
\* cache) and not the straight-line fallback.
C14_LastSuccessTellsOracleRoute ==
    opc = "returned" =>
        ((last_success = "true") <=> (ores.kind \in {"ors", "cache", "waypoints"}))

(***************************************************************************)
(* Claims about the graph builder                                          *)
(***************************************************************************)
\* C15: in the built graph the geometry of every edge (u, v) starts exactly
\* at u and ends exactly at v.
C15_GeometryEndsAtNodes ==
    rpc = "built" =>
        \A e \in G.edges :
            e.geometry[1] = e.u /\ e.geometry[Len(e.geometry)] = e.v

\* C16: each feature gets a forward edge per segment, and a reverse edge with
\* the reversed geometry exactly when that feature is not oneway.
C16_ReverseEdgeIffNotOneway ==
    rpc = "built" =>
        \A i \in 1..Len(features) :
            LET lines == [k \in 1..Len(features) |-> features[k].coords]
                segs == SegmentsOf(lines, i, 100)
            IN  \A s \in 1..Len(segs) :
                    /\ \E e \in G.edges : e.geometry = segs[s]
                    /\ (\E e \in G.edges : e.geometry = Reverse(segs[s]))
                           <=> ~features[i].oneway

\* C17: a point that two features share to within 0.5 m is one node of the
\* built graph, and every segment that reaches the point ends at that node.
C17_SharedPointIsOneNode ==
    rpc = "built" =>
        \A i, j \in 1..Len(features) :
            \A p \in Vertices(features[i].coords), q \in Vertices(features[j].coords) :
                (i # j /\ NearDm(p, q, split_snap_mm)) =>
                    \E n \in G.nodes :
                        /\ {m \in G.nodes : NearDm(m, p, split_snap_mm)} = {n}
                        /\ \A e \in G.edges :
                              /\ NearDm(e.geometry[1], p, split_snap_mm) => e.u = n
                              /\ NearDm(e.geometry[Len(e.geometry)], p, split_snap_mm)
                                     => e.v = n

(***************************************************************************)
(* Claims about connecting components                                      *)
(***************************************************************************)
\* The graph the route is assembled from: the union of the Eulerian graphs
\* of the circuits found.
WorkingGraph ==
    [nodes |-> UNION {scc_circuits[k].G.nodes : k \in 1..Len(scc_circuits)},
     edges |-> UNION {scc_circuits[k].G.edges : k \in 1..Len(scc_circuits)}]

\* C18: when the built street graph has two weak components (here always
\* within 5 km of each other), the graph the route is assembled from has been
\* joined into one weak component before the circuits are stitched.
C18_TwoComponentsJoined ==
    (rpc = "stitch" /\ Cardinality(weakly_connected_components(G)) = 2) =>
        Cardinality(weakly_connected_components(WorkingGraph)) = 1

\* Whether the components of g are pairwise within the 5 km of the centroid
\* filter.
WithinReach(g) ==
    \A c1, c2 \in ComponentSubgraphs(g) : ~TooFarApart(c1, c2)

\* C19: for a graph with exactly two weak components within 5 km of each
\* other and an oracle that honours its contract (or falls back to the
\* straight line), connect_components returns a weakly connected graph with
\* more edges than its input, after one iteration.
C19_TwoComponentsOneIteration ==
    (/\ conn_pc = "returned"
     /\ conn_oracle = "contract"
     /\ Cardinality(weakly_connected_components(conn_G)) = 2
     /\ WithinReach(conn_G))
    => /\ is_weakly_connected(G_connected)
       /\ number_of_edges(G_connected) > number_of_edges(conn_G)
       /\ iteration = 1

\* Two components 50 m or more apart have been joined by a routed polyline
\* of more than one hop.
C19_Witness ==
    /\ conn_pc = "returned"
    /\ conn_oracle = "contract"
    /\ Cardinality(weakly_connected_components(conn_G)) = 2
    /\ WithinReach(conn_G)
    /\ iteration = 1
    /\ is_weakly_connected(G_connected)
    /\ number_of_edges(G_connected) > number_of_edges(conn_G) + 2

\* The iterations logged that did not reduce the number of components.
Stalls(log) == Cardinality({i \in 1..Len(log) : log[i].now >= log[i].was})

\* C20: the loop runs at most 10 iterations, and it gives up on a graph that
\* is still disconnected because its last iteration added a connector without
\* progress only when at least 3 iterations made no progress.
C20_AbortOnlyAfterThreeStalls ==
    /\ iteration <= max_iterations
    /\ (/\ conn_pc = "returned"
        /\ conn_log # <<>>
        /\ Len(conn_log) = iteration
        /\ conn_log[Len(conn_log)].now >= conn_log[Len(conn_log)].was
        /\ iteration < max_iterations)
       => Stalls(conn_log) >= 3

(***************************************************************************)
(* Further claims about calculate_route                                    *)
(***************************************************************************)
\* C21: for an input without features calculate_route does not raise: it
\* returns an empty polyline of length 0 that is valid, with zero diagnostics.
C21_EmptyInputReturnsEmptyRoute ==
    (features = <<>> /\ rpc \notin {"idle", "start"}) =>
        /\ result.status = "returned"
        /\ result.geometry = <<>>
        /\ result.length_m = 0
        /\ result.valid
        /\ result.continuity_violations = 0
        /\ result.scc_count = 0
        /\ result.circuits_found = 0

\* C22: the deadhead_ratio reported by Eulerization, duplicated length over
\* original length, lies between 0 and 1.
C22_DeadheadRatioAtMostOne ==
    rpc = "eulerized" =>
        /\ result.stats.deadhead_ratio[1] >= 0
        /\ result.stats.deadhead_ratio[1] <= result.stats.deadhead_ratio[2]

\* The rounds of the loop of _stitch_scc_circuits in which the circuit at
\* position k of scc_circuits is the one looked up and emitted.
EmittedIn(k) ==
    {q \in 1..Len(ordered_indices) :
        /\ SccData(ordered_indices[q]) # {}
        /\ \A j \in SccData(ordered_indices[q]) : k <= j
        /\ k \in SccData(ordered_indices[q])}

\* C23: the visit order is a permutation of the found circuits that starts
\* with the first one, and the stitching loop emits every found circuit
\* exactly once, also when components without edges were skipped.
C23_EveryCircuitEmittedOnce ==
    rpc \in {"stitch", "bridging", "returned"} =>
        /\ Len(ordered_indices) = Len(scc_circuits)
        /\ ordered_indices[1] = 0
        /\ {ordered_indices[q] : q \in 1..Len(ordered_indices)}
               = 0..(Len(scc_circuits) - 1)
        /\ \A k \in 1..Len(scc_circuits) : Cardinality(EmittedIn(k)) = 1

(***************************************************************************)
(* Further claims about bridge_route_gaps and _repair_continuity           *)
(***************************************************************************)
\* A round of the main walk that appends an edge to a polyline already begun.
WalkStep == bpc = "walk" /\ bpc' \in {"walk", "repair"} /\ out # <<>>

\* C24: in the main walk the oracle is asked exactly when the next edge
\* begins more than 20 m from the last emitted point a; what is inserted then
\* follows a, which stays in place, and ends at the edge's first point b, so
\* that the edge's remaining points come right after b.
C24_OracleIffGapAbove20 ==
    [][WalkStep =>
        LET a == out[Len(out)]
            seg == get_edge_geom(bG, circuit[bidx][1], circuit[bidx][2])
            b == seg[1]
            at_b == Len(out') - Len(seg) + 1
        IN  /\ (oracleCalls' = oracleCalls + 1) <=> (Dist(a, b) > ORS_GAP_M)
            /\ (oracleCalls' = oracleCalls) <=> (Dist(a, b) <= ORS_GAP_M)
            /\ Dist(a, b) > ORS_GAP_M =>
                 /\ at_b > Len(out)
                 /\ SubSeq(out', 1, Len(out)) = out
                 /\ out'[at_b] = b
                 /\ SubSeq(out', at_b, Len(out')) = seg]_vars

\* The main walk has asked the oracle and put its polyline through the point
\* 20, which no street passes, into the route; the repair has not begun.
C24_Witness ==
    /\ bpc = "repair" /\ ri = 1 /\ fixed = 0
    /\ oracleCalls > 0
    /\ \E i \in 1..Len(out) : out[i] = 20

\* A round of the loop of _repair_continuity.
RepairRound == bpc = "repair" /\ bpc' = "repair" /\ <<out, ri, fixed>>' # <<out, ri, fixed>>

\* C25: the repair loop ends whatever the oracle does, makes at most 200
\* fixes, and its cursor only moves forward: every round moves it by one
\* point at least and past the points the round inserted, so that fewer points
\* are left ahead of it after every round.
C25_RepairTerminates ==
    /\ [](fixed <= MAX_FIXES)
    /\ [][RepairRound =>
            /\ ri' > ri
            /\ ri' >= ri + 1 + (Len(out') - Len(out))
            /\ Len(out') - ri' < Len(out) - ri
            /\ fixed' \in {fixed, fixed + 1}]_vars
    /\ (bpc = "repair") ~> (bpc = "done")

\* The repair has replaced a gap by a polyline through the point 20 and moved
\* its cursor past it.
C25_Witness ==
    /\ bpc = "repair" /\ fixed > 0 /\ ri > 2
    /\ out[ri - 1] = 20

(***************************************************************************)
(* Further claims about _make_eulerian_directed                            *)
(***************************************************************************)
\* A directed triangle over the corners A = 0, B = 25 and C = 60 with one more
\* one-way edge A -> B: the triangle A -> B -> C -> A, to which the extra edge
\* is parallel, and the triangle A -> C -> B -> A, which holds the edge B -> A.
TriangleWithAB == EulerGraph(<<2, 1, 1, 0, 0, 0>>, Len(EulerEdgeKinds))
TriangleWithBA == EulerGraph(<<1, 0, 0, 1, 1, 1>>, Len(EulerEdgeKinds))

\* Whether H is g with exactly the hops of a shortest path from s to d
\* duplicated once and the reported ratio is the length of that path over the
\* length of the edges of g.
DuplicatesShortestPath(g, H, stats, s, d) ==
    \E q \in ShortestPaths(g, s, d) :
        LET added == H.edges \ g.edges
        IN  /\ g.edges \subseteq H.edges
            /\ Cardinality(added) = Len(q) - 1
            /\ {<<e.u, e.v>> : e \in added}
                   = {<<q[i], q[i + 1]>> : i \in 1..(Len(q) - 1)}
            /\ stats.duplicated_length_m = PathLength(g, q)
            /\ stats.deadhead_ratio = <<PathLength(g, q), SumOfLengths(g)>>

\* C26 as stated: for a directed triangle with an extra one-way edge A -> B the
\* balance is A: -1 and B: +1, exactly the edges of the shortest path from B
\* to A are duplicated, the circuit has 5 edges and deadhead_ratio is the
\* length of that path over the length of the original edges.
C26_AsStated ==
    (rpc = "eulerized" /\ G \in {TriangleWithAB, TriangleWithBA}) =>
        /\ balance(G)[0] = -1 /\ balance(G)[25] = 1
        /\ DuplicatesShortestPath(G, result.H, result.stats, 25, 0)
        /\ \A c \in Circuits(result.H) : Len(c) = 5

\* C26, amended: the balance the code computes, out-degree - in-degree, is
\* A: +1 and B: -1; exactly the edges of the shortest path from B to A are
\* duplicated and deadhead_ratio is the length of that path over the length
\* of the original edges; the circuit has the 4 original edges and the hops of
\* that path: 5 edges when the triangle holds the edge B -> A, 6 when it
\* holds A -> B.
C26_TriangleExtraEdge ==
    (rpc = "eulerized" /\ G \in {TriangleWithAB, TriangleWithBA}) =>
        /\ balance(G)[0] = 1 /\ balance(G)[25] = -1
        /\ DuplicatesShortestPath(G, result.H, result.stats, 25, 0)
        /\ \A c \in Circuits(result.H) :
               Len(c) = IF G = TriangleWithBA THEN 5 ELSE 6

\* The triangle that holds B -> A has been made Eulerian with 5 edges.
C26_Witness ==
    /\ rpc = "eulerized" /\ G = TriangleWithBA
    /\ number_of_edges(result.H) = 5
    /\ result.stats.edges_added = 1

(***************************************************************************)
(* Further claims about connecting components                              *)
(***************************************************************************)
\* C27: connect_components keeps every edge of its input and adds edges only
\* together with their reverse, so every node of the input has the same
\* out-degree - in-degree in the graph it works on and returns, and the nodes
\* it adds are balanced.
C27_ConnectKeepsBalance ==
    conn_pc \in {"loop", "returned"} =>
        /\ conn_G.edges \subseteq G_connected.edges
        /\ conn_G.nodes \subseteq G_connected.nodes
        /\ \A n \in conn_G.nodes : balance(G_connected)[n] = balance(conn_G)[n]
        /\ \A n \in G_connected.nodes \ conn_G.nodes : balance(G_connected)[n] = 0

\* Three components have been joined into one by connectors.
C27_Witness ==
    /\ conn_pc = "returned"
    /\ Cardinality(weakly_connected_components(conn_G)) = 3
    /\ is_weakly_connected(G_connected)
    /\ number_of_edges(G_connected) >= number_of_edges(conn_G) + 4

\* C28: the repair pass only inserts points: after every round the polyline
\* still holds every point it held before the round, with the same value and
\* in the same order, whether or not the oracle returned a polyline.
C28_RepairOnlyInserts ==
    [][RepairRound => IsSubsequence(out, out')]_vars

(***************************************************************************)
(* Further claims about jobs                                               *)
(***************************************************************************)
\* C29: every job that has been claimed (status processing) eventually has one
\* of the statuses completed, completed_with_warnings or failed, also when the
\* status update of the failure handler raises.
C29_ClaimedJobReachesTerminal ==
    \A j \in Jobs : (jobStatus[j] = "processing") ~> (jobStatus[j] \in Terminal)

\* A call of get_pending_job by worker w returns a job in this step.
Returns(w) == worker_pc[w] = "statement" /\ worker_pc'[w] = "process"

\* The statement of worker w locks a row in this step.
Locks(w) == worker_pc[w] = "poll" /\ worker_pc'[w] = "statement"

\* A claim of another worker is in progress: its statement ran, no commit yet.
OtherClaimOpen(w) == \E v \in Workers \ {w} : worker_pc[v] = "statement"

NoJobReturnedTwice ==
    \A i, k \in DOMAIN claim_log : i # k => claim_log[i] # claim_log[k]

\* C30 as stated: no job is returned by two calls, and the job a call returns
\* is the oldest job with status pending, with one worker or with several.
C30_AsStated ==
    /\ []NoJobReturnedTwice
    /\ [][\A w \in Workers : Returns(w) =>
            worker_job'[w] = OldestOf({j \in Rows : coverage_routes[j] = "pending"})]_vars

\* C30: no job is returned by two calls; a returned job had status pending and
\* has status processing from the step that returns it; the row a statement
\* takes is the oldest pending row not locked by the open claim of another
\* worker, which is the oldest pending row when no other claim is open.
C30_ClaimedOnceOldestUnlocked ==
    /\ []NoJobReturnedTwice
    /\ [](\A v, w \in Workers :
            (v # w /\ worker_job[v] # NoJob) => worker_job[v] # worker_job[w])
    /\ [][\A w \in Workers : Returns(w) =>
            /\ coverage_routes[worker_job'[w]] = "pending"
            /\ coverage_routes'[worker_job'[w]] = "processing"]_vars
    /\ [][\A w \in Workers : Locks(w) =>
            LET pending == {j \in Rows : coverage_routes[j] = "pending"}
                free == {j \in pending : \A v \in Workers \ {w} : row_lock[j] # v}
            IN  /\ worker_job'[w] = OldestOf(free)
                /\ ~OtherClaimOpen(w) => worker_job'[w] = OldestOf(pending)]_vars

\* Two workers hold a job each, and the younger job was returned first.
C30_Witness ==
    /\ \A w \in Workers : worker_pc[w] = "process"
    /\ Len(claim_log) >= 2
    /\ claim_log[1] > claim_log[2]

====
